---- MODULE Spec2Model ----
(***************************************************************************)
(* whats-cookin: the shopping-list handler of api/shopping-lists.ts over   *)
(* the spreadsheet row store.  Sheets are sequences of rows, a row is a    *)
(* sequence of cell strings, row 1 of every sheet is its header row.       *)
(* A request is a process that takes one step per row-store call: the      *)
(* step is the remote effect of the call together with the handler code    *)
(* that runs up to the next call (or up to the response).                  *)
(***************************************************************************)
EXTENDS Integers, Sequences, FiniteSets, TLC

VARIABLES
    sheets,     \* the spreadsheet: sheet name -> rows
    req,        \* per process: the request in flight, its locals, its response
    clock,      \* the wall clock read by new Date(), in seconds
    uuids,      \* the uuid() values minted so far: what each was minted for
    pure        \* input and output of combineIngredients applied on its own

vars == <<sheets, req, clock, uuids, pure>>

(***************************************************************************)
(* Bounds of the model.                                                    *)
(***************************************************************************)
MaxQty == 2         \* quantity cells hold "", "0" .. MaxQty
MaxLines == 2       \* ingredient lines of the consolidation inputs
MaxMealRows == 2    \* MealIngredients rows of the generate-only model
MaxLists == 1       \* generate requests that get as far as the list header
MaxTicks == 2       \* clock advances
MaxMealIds == 5     \* longest mealIds array a request carries

(***************************************************************************)
(* JavaScript values.                                                      *)
(***************************************************************************)
\* number | null: <<>> is null, <<n>> is the number n
Null == <<>>
Num(n) == <<n>>
IsNull(q) == q = <<>>
NumVal(q) == q[1]

\* truthiness of a number | null (amount.quantity ? ... : ...)
TruthyNum(q) == ~IsNull(q) /\ NumVal(q) # 0

\* String(v) / v.toString() / `${v}` of a number, and of a boolean
StringOfNumber(n) == ToString(n)
StringOfBoolean(b) == IF b THEN "true" ELSE "false"

\* the numbers a cell of the model can spell
Numerals == 0 .. (MaxLines * MaxQty + MaxLines + MaxMealRows + 4)
IsNumeral(s) == \E n \in Numerals : ToString(n) = s
\* parseFloat / parseInt of a cell that spells a number
parseFloat(s) == CHOOSE n \in Numerals : ToString(n) = s
parseInt(s) == CHOOSE n \in Numerals : ToString(n) = s

\* a[i] of a JS array with 0-based index i; undefined reads as ""
Cell(row, i) == IF i + 1 <= Len(row) THEN row[i + 1] ELSE ""

\* array.slice(1)
Slice1(rows) == IF Len(rows) <= 1 THEN <<>> ELSE SubSeq(rows, 2, Len(rows))

\* array.includes(x)
Includes(arr, x) == \E i \in 1 .. Len(arr) : arr[i] = x

RECURSIVE Join(_, _)
\* parts.join(sep)
Join(parts, sep) ==
    IF Len(parts) = 0 THEN ""
    ELSE IF Len(parts) = 1 THEN parts[1]
    ELSE parts[1] \o sep \o Join(Tail(parts), sep)

(***************************************************************************)
(* Map<K, V> with insertion order: a sequence of [key, value] entries.     *)
(***************************************************************************)
MapHas(m, k) == \E i \in 1 .. Len(m) : m[i].key = k
MapIndex(m, k) == CHOOSE i \in 1 .. Len(m) : m[i].key = k
\* m.get(k) || dflt
MapGetOr(m, k, dflt) == IF MapHas(m, k) THEN m[MapIndex(m, k)].value ELSE dflt
\* faulty variant: a new key goes in front of the others
MapSetNewestFirst(m, k, v) ==
    IF MapHas(m, k)
    THEN [m EXCEPT ![MapIndex(m, k)] = [key |-> k, value |-> v]]
    ELSE <<[key |-> k, value |-> v]>> \o m
\* m.set(k, v): an existing key keeps its position
MapSet(m, k, v) ==
    IF MapHas(m, k)
    THEN [m EXCEPT ![MapIndex(m, k)] = [key |-> k, value |-> v]]
    ELSE Append(m, [key |-> k, value |-> v])

(***************************************************************************)
(* Column indices.                                                         *)
(***************************************************************************)
LIST_COL == [ID |-> 0, NAME |-> 1, MEAL_IDS |-> 2, CREATED_AT |-> 3, EXPIRES_AT |-> 4, CREATED_BY |-> 5]
ITEM_COL == [ID |-> 0, LIST_ID |-> 1, INGREDIENT_ID |-> 2, COMBINED_QUANTITY |-> 3, STORE_SECTION |-> 4, IS_CHECKED |-> 5, DISPLAY_ORDER |-> 6]
ING_COL == [ID |-> 0, NAME |-> 1, DISPLAY_NAME |-> 2, STORE_SECTION |-> 3, DEFAULT_UNIT |-> 4, IS_COMMON_ITEM |-> 5, CREATED_AT |-> 6, LAST_USED |-> 7]
MEAL_ING_COL == [ID |-> 0, MEAL_ID |-> 1, INGREDIENT_ID |-> 2, QUANTITY |-> 3, UNIT |-> 4, NOTES |-> 5]

SECTION_ORDER == <<"produce", "meat", "dairy", "bakery", "frozen", "pantry", "beverages", "other">>

(***************************************************************************)
(* combineIngredients.                                                     *)
(***************************************************************************)
RECURSIVE GroupedUpTo(_, _)
\* grouped after the first n amounts: ingredientId -> its amounts, in order
GroupedUpTo(amounts, n) ==
    IF n = 0 THEN <<>>
    ELSE LET g == GroupedUpTo(amounts, n - 1)
             amount == amounts[n]
             existing == MapGetOr(g, amount.ingredientId, <<>>)
         IN  MapSet(g, amount.ingredientId, Append(existing, amount))

\* faulty variant: every amount is a group of its own
GroupedNoMerge(amounts) ==
    [n \in 1 .. Len(amounts) |-> [key |-> amounts[n].ingredientId, value |-> <<amounts[n]>>]]
Grouped(amounts) == GroupedUpTo(amounts, Len(amounts))

\* the bucket key of an amount
\* faulty variant: one bucket for every unit
UnitKeyOneBucket(amount) == "count"
UnitKey(amount) == IF amount.unit # "" THEN amount.unit ELSE "count"

\* the first branch of the loop body: the amount is summed into a bucket
\* faulty variant: the note is not looked at
CombinableIgnoringNotes(amount) == ~IsNull(amount.quantity)
Combinable(amount) == ~IsNull(amount.quantity) /\ amount.notes = ""

\* the fragment of an amount that carries a note
NotePart(amount) ==
    IF TruthyNum(amount.quantity)
    THEN StringOfNumber(NumVal(amount.quantity))
         \o (IF amount.unit # "" THEN " " \o amount.unit ELSE "")
         \o " (" \o amount.notes \o ")"
    ELSE amount.notes

RECURSIVE ByUnitUpTo(_, _)
\* byUnit after the first n amounts of one ingredient
ByUnitUpTo(amountList, n) ==
    IF n = 0 THEN <<>>
    ELSE LET m == ByUnitUpTo(amountList, n - 1)
             amount == amountList[n]
             key == UnitKey(amount)
         IN  IF Combinable(amount)
             THEN MapSet(m, key, MapGetOr(m, key, 0) + NumVal(amount.quantity))
             ELSE IF amount.notes # ""
             THEN m
             ELSE IF ~IsNull(amount.quantity)
             THEN MapSet(m, key, MapGetOr(m, key, 0) + NumVal(amount.quantity))
             ELSE m

ByUnit(amountList) == ByUnitUpTo(amountList, Len(amountList))

RECURSIVE NonCombinableUpTo(_, _)
\* nonCombinableNotes after the first n amounts of one ingredient
NonCombinableUpTo(amountList, n) ==
    IF n = 0 THEN <<>>
    ELSE LET sofar == NonCombinableUpTo(amountList, n - 1)
             amount == amountList[n]
         IN  IF Combinable(amount) THEN sofar
             ELSE IF amount.notes # "" THEN Append(sofar, NotePart(amount))
             ELSE sofar

NonCombinableNotes(amountList) == NonCombinableUpTo(amountList, Len(amountList))

\* faulty variant: the count bucket is displayed with its key
UnitPartWithKey(entry) == StringOfNumber(entry.value) \o " " \o entry.key
\* the fragment of one unit bucket
UnitPart(entry) ==
    IF entry.key = "count"
    THEN StringOfNumber(entry.value)
    ELSE StringOfNumber(entry.value) \o " " \o entry.key

UnitParts(amountList) ==
    LET byUnit == ByUnit(amountList)
    IN  [i \in 1 .. Len(byUnit) |-> UnitPart(byUnit[i])]

\* parts: the bucket fragments, then the note fragments
Parts(amountList) == UnitParts(amountList) \o NonCombinableNotes(amountList)

\* the string literal of line 164, one code point after the other: the file holds
\* the three characters a-circumflex, euro sign, right double quotation mark
PLACEHOLDER == "U+00E2 U+20AC U+201D"

\* the em dash
EM_DASH == "U+2014"

Display(amountList) ==
    LET parts == Parts(amountList)
    IN  IF Len(parts) > 0 THEN Join(parts, " + ") ELSE PLACEHOLDER

combineIngredients(amounts) ==
    LET grouped == Grouped(amounts)
    IN  [i \in 1 .. Len(grouped) |->
            LET first == grouped[i].value[1]
            IN  [key |-> grouped[i].key,
                 value |-> [display |-> Display(grouped[i].value),
                            section |-> first.storeSection,
                            name |-> first.displayName,
                            isCommonItem |-> first.isCommonItem]]]

(***************************************************************************)
(* The row store (sheets helpers).  valueInputOption USER_ENTERED makes    *)
(* the spreadsheet parse every written cell as if typed: "true"/"false"    *)
(* become the booleans that read back as "TRUE"/"FALSE".                   *)
(***************************************************************************)
SheetNames == {"Meals", "MealIngredients", "Ingredients", "ShoppingLists", "ShoppingListItems"}

UserEntered(v) ==
    CASE v = "true" -> "TRUE"
      [] v = "false" -> "FALSE"
      [] OTHER -> v

RECURSIVE WrittenRow(_)
\* values.map(String) as the sheet takes them
WrittenRow(values) ==
    IF Len(values) = 0 THEN <<>>
    ELSE Append(WrittenRow(SubSeq(values, 1, Len(values) - 1)), UserEntered(values[Len(values)]))

getRows(sh, sheetName) == sh[sheetName]

appendRow(sh, sheetName, values) ==
    [sh EXCEPT ![sheetName] = Append(@, WrittenRow(values))]

\* range A<rowIndex>:Z<rowIndex>: the written cells replace the row's first
\* cells; a row index past the data extends the sheet with empty rows
updateRow(sh, sheetName, rowIndex, values) ==
    LET rows == sh[sheetName]
        old == IF rowIndex <= Len(rows) THEN rows[rowIndex] ELSE <<>>
        new == WrittenRow(values) \o SubSeq(old, Len(values) + 1, Len(old))
    IN  [sh EXCEPT ![sheetName] =
             IF rowIndex <= Len(rows)
             THEN SubSeq(rows, 1, rowIndex - 1) \o <<new>> \o SubSeq(rows, rowIndex + 1, Len(rows))
             ELSE rows \o [k \in 1 .. rowIndex - Len(rows) - 1 |-> <<>>] \o <<new>>]

(***************************************************************************)
(* Time.  The clock counts seconds (the code's milliseconds, scaled so     *)
(* that four weeks fits the checker's integers).                           *)
(***************************************************************************)
FOUR_WEEKS == 4 * 7 * 24 * 60 * 60

Ticks(t) == (t % FOUR_WEEKS) + (t \div FOUR_WEEKS)
TimeValues == {a + b * FOUR_WEEKS : a \in 0 .. MaxTicks, b \in 0 .. MaxTicks + 1}

\* date.toISOString(), and new Date(string).getTime()
toISOString(t) == "T" \o ToString(t) \o "Z"
DateParse(s) == CHOOSE t \in TimeValues : toISOString(t) = s

\* uuid(): the n-th value minted
Uuid(n) == "u" \o ToString(n)

(***************************************************************************)
(* Requests.                                                               *)
(***************************************************************************)
Procs == {"p1", "p2"}
SeqProcs == {"p1"}

UserEmail == "ian@example.com"

\* JSON body values carry their type
Undefined == [type |-> "undefined", val |-> FALSE, arr |-> <<>>]
JsBool(b) == [type |-> "boolean", val |-> b, arr |-> <<>>]
JsString == [type |-> "string", val |-> FALSE, arr |-> <<>>]
JsArray(a) == [type |-> "array", val |-> FALSE, arr |-> a]

NoResponse == [status |-> 0, code |-> "", body |-> <<>>]

NoRequest ==
    [authed |-> FALSE, method |-> "", action |-> "", id |-> "", itemId |-> "",
     mealIds |-> Undefined, excludeCommonItems |-> Undefined, isChecked |-> Undefined]

IdleReq ==
    [pc |-> "idle", request |-> NoRequest, calls |-> <<>>, response |-> NoResponse,
     mealIngredientRows |-> <<>>, listRows |-> <<>>, itemRows |-> <<>>,
     combined |-> <<>>, listId |-> "", now |-> 0, expiresAt |-> 0,
     items |-> <<>>, displayOrder |-> 0, itemIndex |-> 0, updatedRow |-> <<>>,
     listRowIndex |-> 0, itemsToDelete |-> <<>>,
     newEntry |-> <<>>, mealRowIndex |-> 0, entryRowIndex |-> 0,
     pending |-> <<>>]      \* rows of appendRow calls started and not awaited

Started(request) == [IdleReq EXCEPT !.request = request]

\* res.status(status).json(body) and return: the locals are gone
Respond(r, status, code, body) ==
    [IdleReq EXCEPT !.pc = "done", !.request = r.request, !.calls = r.calls, !.now = r.now,
                    !.response = [status |-> status, code |-> code, body |-> body]]

Called(r, call) == [r EXCEPT !.calls = Append(@, call)]

\* which branch of the handler a request takes once authenticated
Route(request) ==
    IF request.method = "POST" /\ request.action = "generate" THEN "generate"
    ELSE IF request.method = "PATCH" /\ request.id # "" /\ request.itemId # "" THEN "toggle"
    ELSE IF request.method = "DELETE" /\ request.id # "" THEN "delete"
    ELSE IF request.method = "GET" THEN "list"
    ELSE "none"

(***************************************************************************)
(* generate: POST /api/shopping-lists?action=generate                      *)
(***************************************************************************)
shouldExcludeCommon(request) ==
    request.excludeCommonItems.type = "boolean" /\ request.excludeCommonItems.val

\* !mealIds || !Array.isArray(mealIds) || mealIds.length === 0
MealIdsMissing(mealIds) == mealIds.type # "array" \/ Len(mealIds.arr) = 0
\* faulty variant: no upper limit
TooManyMealsNoLimit(mealIds) == FALSE
TooManyMeals(mealIds) == Len(mealIds.arr) > 4

\* the ingredient lookup map built from the Ingredients rows
IngredientEntry(row) ==
    [name |-> Cell(row, ING_COL.NAME),
     displayName |-> IF Cell(row, ING_COL.DISPLAY_NAME) # "" THEN Cell(row, ING_COL.DISPLAY_NAME)
                     ELSE Cell(row, ING_COL.NAME),
     storeSection |-> IF Cell(row, ING_COL.STORE_SECTION) # "" THEN Cell(row, ING_COL.STORE_SECTION)
                      ELSE "pantry",
     isCommonItem |-> Cell(row, ING_COL.IS_COMMON_ITEM) = "TRUE"]

RECURSIVE IngredientMapUpTo(_, _)
IngredientMapUpTo(rows, n) ==
    IF n = 0 THEN <<>>
    ELSE LET m == IngredientMapUpTo(rows, n - 1)
             row == rows[n]
         IN  IF Cell(row, ING_COL.ID) # ""
             THEN MapSet(m, Cell(row, ING_COL.ID), IngredientEntry(row))
             ELSE m

IngredientMap(ingredientRows) ==
    IngredientMapUpTo(Slice1(ingredientRows), Len(Slice1(ingredientRows)))

FallbackIngredient(ingredientId) ==
    [name |-> ingredientId, displayName |-> ingredientId,
     storeSection |-> "pantry", isCommonItem |-> FALSE]

\* the amount pushed for one MealIngredients row of a selected meal
AmountOfRow(row, ingredientMap) ==
    LET ingredientId == Cell(row, MEAL_ING_COL.INGREDIENT_ID)
        ingredient == MapGetOr(ingredientMap, ingredientId, FallbackIngredient(ingredientId))
    IN  [ingredientId |-> ingredientId,
         name |-> ingredient.name,
         displayName |-> ingredient.displayName,
         storeSection |-> ingredient.storeSection,
         isCommonItem |-> ingredient.isCommonItem,
         quantity |-> IF Cell(row, MEAL_ING_COL.QUANTITY) # ""
                      THEN Num(parseFloat(Cell(row, MEAL_ING_COL.QUANTITY)))
                      ELSE Null,
         unit |-> Cell(row, MEAL_ING_COL.UNIT),
         notes |-> Cell(row, MEAL_ING_COL.NOTES)]

RECURSIVE AllAmountsUpTo(_, _, _, _)
AllAmountsUpTo(mealIds, rows, ingredientMap, n) ==
    IF n = 0 THEN <<>>
    ELSE LET sofar == AllAmountsUpTo(mealIds, rows, ingredientMap, n - 1)
             row == rows[n]
         IN  IF ~Includes(mealIds, Cell(row, MEAL_ING_COL.MEAL_ID)) THEN sofar
             ELSE Append(sofar, AmountOfRow(row, ingredientMap))

AllAmounts(mealIds, mealIngredientRows, ingredientRows) ==
    AllAmountsUpTo(mealIds, Slice1(mealIngredientRows), IngredientMap(ingredientRows),
                   Len(Slice1(mealIngredientRows)))

\* faulty variant: the empty check is gone
NoIngredientsUnchecked(allAmounts) == FALSE
\* allAmounts.length === 0
NoIngredients(allAmounts) == Len(allAmounts) = 0

\* faulty variant: common items are never skipped
SkipSectionOnly(entry, section, exclude) == entry.value.section # section
\* the inner loop's two `continue` tests
Skip(entry, section, exclude) ==
    \/ entry.value.section # section
    \/ exclude /\ entry.value.isCommonItem

RECURSIVE SectionEntries(_, _, _, _)
\* the entries of `combined` the inner loop keeps for one section, in map order
SectionEntries(combined, section, exclude, n) ==
    IF n = 0 THEN <<>>
    ELSE LET sofar == SectionEntries(combined, section, exclude, n - 1)
         IN  IF Skip(combined[n], section, exclude) THEN sofar
             ELSE Append(sofar, combined[n])

RECURSIVE PlanUpTo(_, _, _)
\* the entries the two nested loops visit, in visiting order
PlanUpTo(combined, exclude, k) ==
    IF k = 0 THEN <<>>
    ELSE PlanUpTo(combined, exclude, k - 1)
         \o SectionEntries(combined, SECTION_ORDER[k], exclude, Len(combined))

\* faulty variant: the items follow the map order, the sections are not walked
PlanInMapOrder(combined, exclude) ==
    LET kept == {n \in 1 .. Len(combined) :
                    /\ \E k \in 1 .. Len(SECTION_ORDER) : SECTION_ORDER[k] = combined[n].value.section
                    /\ ~(exclude /\ combined[n].value.isCommonItem)}
        Nth(i) == CHOOSE n \in kept : Cardinality({m \in kept : m < n}) = i - 1
    IN  [i \in 1 .. Cardinality(kept) |-> combined[Nth(i)]]
Plan(combined, exclude) == PlanUpTo(combined, exclude, Len(SECTION_ORDER))

NewItem(itemIdNew, listId, entry, displayOrder) ==
    [id |-> itemIdNew, listId |-> listId, ingredientId |-> entry.key,
     combinedQuantity |-> entry.value.display, storeSection |-> entry.value.section,
     isChecked |-> FALSE, displayOrder |-> displayOrder, ingredientName |-> entry.value.name]

\* faulty variant: every item is filed under pantry
ItemRowPantry(itemIdNew, listId, entry, displayOrder) ==
    <<itemIdNew, listId, entry.key, entry.value.display, "pantry", StringOfBoolean(FALSE),
      StringOfNumber(displayOrder)>>
ItemRow(itemIdNew, listId, entry, displayOrder) ==
    <<itemIdNew, listId, entry.key, entry.value.display, entry.value.section,
      StringOfBoolean(FALSE), StringOfNumber(displayOrder)>>

\* JSON.stringify(mealIds) of an array of strings
JsonStringify(arr) == "[" \o Join([i \in 1 .. Len(arr) |-> "\"" \o arr[i] \o "\""], ",") \o "]"

\* the mealIds arrays a request can carry
Repeat(x, n) == [i \in 1 .. n |-> x]
MealIdArrays ==
    {<<>>, <<"m1">>, <<"m2">>, <<"m1", "m2">>, <<"m3">>, Repeat("m1", 4)}
    \cup {Repeat("m1", n) : n \in 5 .. MaxMealIds}

\* JSON.parse(cell || '[]')
JsonParse(s) ==
    IF s = "" THEN <<>> ELSE CHOOSE arr \in MealIdArrays : JsonStringify(arr) = s

ExpiresAt(now) == now + FOUR_WEEKS

ListRow(listId, mealIds, now, expiresAt) ==
    <<listId, "", JsonStringify(mealIds), toISOString(now), toISOString(expiresAt), UserEmail>>

GeneratedList(r) ==
    [list |-> [id |-> r.listId, name |-> "", mealIds |-> r.request.mealIds.arr,
               createdAt |-> toISOString(r.now), expiresAt |-> toISOString(r.expiresAt),
               createdBy |-> UserEmail, items |-> r.items]]

(***************************************************************************)
(* toggle: PATCH /api/shopping-lists?id=xxx&itemId=yyy                     *)
(***************************************************************************)
\* faulty variant: the list id is not compared
ItemMatchesAnyList(row, id, itemId) == Cell(row, ITEM_COL.ID) = itemId
ItemMatches(row, id, itemId) ==
    Cell(row, ITEM_COL.ID) = itemId /\ Cell(row, ITEM_COL.LIST_ID) = id

\* itemRows.findIndex(...): 0-based, -1 when no row matches
FindItemIndex(itemRows, id, itemId) ==
    IF \E i \in 2 .. Len(itemRows) : ItemMatches(itemRows[i], id, itemId)
    THEN (CHOOSE i \in 2 .. Len(itemRows) :
              /\ ItemMatches(itemRows[i], id, itemId)
              /\ \A j \in 2 .. i - 1 : ~ItemMatches(itemRows[j], id, itemId)) - 1
    ELSE -1

\* String(row[i]) as updateRow writes it: a cell the row lacks is undefined
StringOfCell(row, i) == IF i + 1 <= Len(row) THEN row[i + 1] ELSE "undefined"

\* faulty variant: the display order column is not written back
UpdatedRowShort(row, isChecked) ==
    <<StringOfCell(row, ITEM_COL.ID), StringOfCell(row, ITEM_COL.LIST_ID),
      StringOfCell(row, ITEM_COL.INGREDIENT_ID), StringOfCell(row, ITEM_COL.COMBINED_QUANTITY),
      StringOfCell(row, ITEM_COL.STORE_SECTION), StringOfBoolean(isChecked), "">>
UpdatedRow(row, isChecked) ==
    <<StringOfCell(row, ITEM_COL.ID), StringOfCell(row, ITEM_COL.LIST_ID),
      StringOfCell(row, ITEM_COL.INGREDIENT_ID), StringOfCell(row, ITEM_COL.COMBINED_QUANTITY),
      StringOfCell(row, ITEM_COL.STORE_SECTION), StringOfBoolean(isChecked),
      StringOfCell(row, ITEM_COL.DISPLAY_ORDER)>>

\* the PATCH branch run from its read to its write with nothing in between
ToggleItem(sh, id, itemId, isChecked) ==
    LET itemRows == getRows(sh, "ShoppingListItems")
        itemIndex == FindItemIndex(itemRows, id, itemId)
    IN  IF itemIndex = -1 THEN sh
        ELSE updateRow(sh, "ShoppingListItems", itemIndex + 1,
                       UpdatedRow(itemRows[itemIndex + 1], isChecked))

(***************************************************************************)
(* listing: GET /api/shopping-lists                                        *)
(***************************************************************************)
IsDate(s) == \E t \in TimeValues : toISOString(t) = s

\* expiresAt < now
\* faulty variant: a list is hidden from the instant it expires
ExpiredAtTheInstant(row, now) ==
    IsDate(Cell(row, LIST_COL.EXPIRES_AT)) /\ DateParse(Cell(row, LIST_COL.EXPIRES_AT)) <= now
Expired(row, now) ==
    IsDate(Cell(row, LIST_COL.EXPIRES_AT)) /\ DateParse(Cell(row, LIST_COL.EXPIRES_AT)) < now

\* parseInt(cell) || 0
ParseIntOr0(s) == IF IsNumeral(s) THEN parseInt(s) ELSE 0

RECURSIVE NameMapUpTo(_, _)
NameMapUpTo(rows, n) ==
    IF n = 0 THEN <<>>
    ELSE LET row == rows[n]
         IN  MapSet(NameMapUpTo(rows, n - 1), Cell(row, ING_COL.ID),
                    IF Cell(row, ING_COL.DISPLAY_NAME) # "" THEN Cell(row, ING_COL.DISPLAY_NAME)
                    ELSE Cell(row, ING_COL.NAME))

NameMap(ingredientRows) == NameMapUpTo(Slice1(ingredientRows), Len(Slice1(ingredientRows)))

\* ingredientMap.get(id) || id || 'Unknown'
IngredientName(nameMap, ingredientId) ==
    IF MapGetOr(nameMap, ingredientId, "") # "" THEN MapGetOr(nameMap, ingredientId, "")
    ELSE IF ingredientId # "" THEN ingredientId
    ELSE "Unknown"

ListedItem(itemRow, nameMap) ==
    [id |-> Cell(itemRow, ITEM_COL.ID), listId |-> Cell(itemRow, ITEM_COL.LIST_ID),
     ingredientId |-> Cell(itemRow, ITEM_COL.INGREDIENT_ID),
     combinedQuantity |-> Cell(itemRow, ITEM_COL.COMBINED_QUANTITY),
     storeSection |-> Cell(itemRow, ITEM_COL.STORE_SECTION),
     isChecked |-> Cell(itemRow, ITEM_COL.IS_CHECKED) = "TRUE",
     displayOrder |-> ParseIntOr0(Cell(itemRow, ITEM_COL.DISPLAY_ORDER)),
     ingredientName |-> IngredientName(nameMap, Cell(itemRow, ITEM_COL.INGREDIENT_ID))]

RECURSIVE ItemsOfList(_, _, _, _)
\* itemRows.slice(1).filter(listId matches).map(...), over the first n rows
ItemsOfList(rows, listId, nameMap, n) ==
    IF n = 0 THEN <<>>
    ELSE LET sofar == ItemsOfList(rows, listId, nameMap, n - 1)
         IN  IF Cell(rows[n], ITEM_COL.LIST_ID) = listId
             THEN Append(sofar, ListedItem(rows[n], nameMap))
             ELSE sofar

\* insert x into the sorted sequence s after every element that does not come after it
RECURSIVE InsertByOrder(_, _)
InsertByOrder(s, x) ==
    IF Len(s) = 0 THEN <<x>>
    ELSE IF s[Len(s)].displayOrder <= x.displayOrder THEN Append(s, x)
    ELSE Append(InsertByOrder(SubSeq(s, 1, Len(s) - 1), x), s[Len(s)])

RECURSIVE SortByDisplayOrder(_, _)
\* .sort((a, b) => a.displayOrder - b.displayOrder), stable
SortByDisplayOrder(items, n) ==
    IF n = 0 THEN <<>> ELSE InsertByOrder(SortByDisplayOrder(items, n - 1), items[n])

ListedList(row, itemRows, nameMap) ==
    LET listId == Cell(row, LIST_COL.ID)
        items == ItemsOfList(Slice1(itemRows), listId, nameMap, Len(Slice1(itemRows)))
    IN  [id |-> listId, name |-> Cell(row, LIST_COL.NAME),
         mealIds |-> JsonParse(Cell(row, LIST_COL.MEAL_IDS)),
         createdAt |-> Cell(row, LIST_COL.CREATED_AT),
         expiresAt |-> Cell(row, LIST_COL.EXPIRES_AT),
         createdBy |-> Cell(row, LIST_COL.CREATED_BY),
         items |-> SortByDisplayOrder(items, Len(items))]

CreatedTime(list) == IF IsDate(list.createdAt) THEN DateParse(list.createdAt) ELSE 0

RECURSIVE InsertByCreated(_, _)
InsertByCreated(s, x) ==
    IF Len(s) = 0 THEN <<x>>
    ELSE IF CreatedTime(s[Len(s)]) >= CreatedTime(x) THEN Append(s, x)
    ELSE Append(InsertByCreated(SubSeq(s, 1, Len(s) - 1), x), s[Len(s)])

RECURSIVE ValidListsUpTo(_, _, _, _, _)
\* validLists after the first n list rows, kept sorted by createdAt descending
ValidListsUpTo(rows, itemRows, nameMap, now, n) ==
    IF n = 0 THEN <<>>
    ELSE LET sofar == ValidListsUpTo(rows, itemRows, nameMap, now, n - 1)
         IN  IF Expired(rows[n], now) THEN sofar
             ELSE InsertByCreated(sofar, ListedList(rows[n], itemRows, nameMap))

ValidLists(listRows, itemRows, ingredientRows, now) ==
    ValidListsUpTo(Slice1(listRows), itemRows, NameMap(ingredientRows), now,
                   Len(Slice1(listRows)))

\* the GET branch run from its first read to its response with nothing in between
ListingOf(sh, now) ==
    ValidLists(getRows(sh, "ShoppingLists"), getRows(sh, "ShoppingListItems"),
               getRows(sh, "Ingredients"), now)

(***************************************************************************)
(* delete: DELETE /api/shopping-lists?id=xxx                               *)
(***************************************************************************)
\* findRowByColumn: 1-based sheet row of the first data row whose cell matches, 0 for null
findRowByColumn(rows, columnIndex, value) ==
    IF \E i \in 2 .. Len(rows) : Cell(rows[i], columnIndex) = value
    THEN CHOOSE i \in 2 .. Len(rows) :
             /\ Cell(rows[i], columnIndex) = value
             /\ \A j \in 2 .. i - 1 : Cell(rows[j], columnIndex) # value
    ELSE 0

\* faulty variant: the rows are deleted top first
ItemsToDeleteTopFirst(itemRows, id, n) ==
    LET S == {i \in 1 .. n : Cell(itemRows[i], ITEM_COL.LIST_ID) = id}
    IN  [j \in 1 .. Cardinality(S) |->
            CHOOSE i \in S : Cardinality({x \in S : x < i}) = j - 1]
RECURSIVE ItemsToDelete(_, _, _)
\* the sheet row indices of the rows of list id among the first n rows, bottom first
ItemsToDelete(itemRows, id, n) ==
    IF n = 0 THEN <<>>
    ELSE IF Cell(itemRows[n], ITEM_COL.LIST_ID) = id
         THEN <<n>> \o ItemsToDelete(itemRows, id, n - 1)
         ELSE ItemsToDelete(itemRows, id, n - 1)

\* deleteDimension ROWS [rowIndex - 1, rowIndex)
deleteRow(sh, sheetName, rowIndex) ==
    LET rows == sh[sheetName]
    IN  IF rowIndex > Len(rows) THEN sh
        ELSE [sh EXCEPT ![sheetName] =
                 SubSeq(rows, 1, rowIndex - 1) \o SubSeq(rows, rowIndex + 1, Len(rows))]

(***************************************************************************)
(* The handler, one action per row-store call.                             *)
(***************************************************************************)
Free(p) == req[p].pc = "idle"

\* generate requests that passed validation and have not minted their list id yet
GeneratesUnderWay ==
    Cardinality({q \in Procs : req[q].pc \in {"gen_getMealIngredients", "gen_getIngredients"}})
ListsMinted == Cardinality({i \in 1 .. Len(uuids) : uuids[i] = "list"})

\* faulty variant: the session is looked at after the input
AfterValidationThenAuth(request) ==
    LET r == [IdleReq EXCEPT !.request = request]
        route == IF request.method = "POST" /\ request.action = "generate" THEN "generate"
                 ELSE IF request.method = "PATCH" /\ request.id # "" /\ request.itemId # ""
                 THEN "toggle"
                 ELSE "other"
        bad == \/ route = "generate" /\ request.mealIds.type # "array"
               \/ route = "toggle" /\ request.isChecked.type # "boolean"
    IN  [IdleReq EXCEPT !.pc = "done", !.request = request,
                        !.response = IF bad THEN [status |-> 400, code |-> "VALIDATION", body |-> <<>>]
                                     ELSE [status |-> 401, code |-> "UNAUTHORIZED", body |-> <<>>]]
\* requireAuth, the routing and the input validation: no row-store call yet
AfterValidation(request) ==
    LET r == Started(request)
        route == Route(request)
    IN  IF ~request.authed THEN Respond(r, 401, "UNAUTHORIZED", <<>>)
        ELSE IF route = "generate"
        THEN IF MealIdsMissing(request.mealIds) THEN Respond(r, 400, "VALIDATION", <<>>)
             ELSE IF TooManyMeals(request.mealIds) THEN Respond(r, 400, "VALIDATION", <<>>)
             ELSE [r EXCEPT !.pc = "gen_getMealIngredients"]
        ELSE IF route = "toggle"
        THEN IF request.isChecked.type # "boolean" THEN Respond(r, 400, "VALIDATION", <<>>)
             ELSE [r EXCEPT !.pc = "patch_getRows"]
        ELSE IF route = "delete" THEN [r EXCEPT !.pc = "del_findList"]
        ELSE IF route = "list" THEN [r EXCEPT !.pc = "get_lists"]
        ELSE Respond(r, 405, "", <<>>)

\* a generate request that will mint a list is begun only below the bound on lists
WithinBounds(request) ==
    AfterValidation(request).pc = "gen_getMealIngredients"
        => ListsMinted + GeneratesUnderWay < MaxLists

HandlerBegin(p, request) ==
    /\ Free(p)
    /\ req' = [req EXCEPT ![p] = AfterValidation(request)]
    /\ UNCHANGED <<sheets, clock, uuids, pure>>

GenGetMealIngredients(p) ==
    /\ req[p].pc = "gen_getMealIngredients"
    /\ req' = [req EXCEPT ![p] =
                  Called([@ EXCEPT !.pc = "gen_getIngredients",
                                   !.mealIngredientRows = getRows(sheets, "MealIngredients")],
                         "getRows MealIngredients")]
    /\ UNCHANGED <<sheets, clock, uuids, pure>>

GenGetIngredients(p) ==
    /\ req[p].pc = "gen_getIngredients"
    /\ LET r == Called(req[p], "getRows Ingredients")
           allAmounts == AllAmounts(r.request.mealIds.arr, r.mealIngredientRows,
                                    getRows(sheets, "Ingredients"))
       IN  IF NoIngredients(allAmounts)
           THEN /\ req' = [req EXCEPT ![p] = Respond(r, 400, "VALIDATION", <<>>)]
                /\ UNCHANGED uuids
           ELSE /\ req' = [req EXCEPT ![p] =
                              [r EXCEPT !.pc = "gen_appendList",
                                        !.combined = combineIngredients(allAmounts),
                                        !.listId = Uuid(Len(uuids) + 1),
                                        !.now = clock,
                                        !.expiresAt = ExpiresAt(clock)]]
                /\ uuids' = Append(uuids, "list")
    /\ UNCHANGED <<sheets, clock, pure>>

\* faulty variant: the header write also stamps the first meal as used
GenAppendListStampingMeal(p) ==
    /\ req[p].pc = "gen_appendList"
    /\ LET r == Called(req[p], "appendRow ShoppingLists")
           plan == Plan(r.combined, shouldExcludeCommon(r.request))
           meal == sheets["Meals"][2]
       IN  /\ sheets' = updateRow(appendRow(sheets, "ShoppingLists",
                                            ListRow(r.listId, r.request.mealIds.arr, r.now,
                                                    r.expiresAt)),
                                  "Meals", 2, <<meal[1], meal[2] \o " (used)">>)
           /\ req' = [req EXCEPT ![p] =
                         IF Len(plan) = 0 THEN Respond(r, 201, "", GeneratedList(r))
                         ELSE [r EXCEPT !.pc = "gen_appendItem"]]
    /\ UNCHANGED <<clock, uuids, pure>>

GenAppendList(p) ==
    /\ req[p].pc = "gen_appendList"
    /\ LET r == Called(req[p], "appendRow ShoppingLists")
           plan == Plan(r.combined, shouldExcludeCommon(r.request))
       IN  /\ sheets' = appendRow(sheets, "ShoppingLists",
                                  ListRow(r.listId, r.request.mealIds.arr, r.now, r.expiresAt))
           /\ req' = [req EXCEPT ![p] =
                         IF Len(plan) = 0 THEN Respond(r, 201, "", GeneratedList(r))
                         ELSE [r EXCEPT !.pc = "gen_appendItem"]]
    /\ UNCHANGED <<clock, uuids, pure>>

\* faulty variant: the item is filed under the list of the last header row in the sheet
GenAppendItemLastList(p) ==
    /\ req[p].pc = "gen_appendItem"
    /\ LET r == Called(req[p], "appendRow ShoppingListItems")
           plan == Plan(r.combined, shouldExcludeCommon(r.request))
           entry == plan[r.displayOrder + 1]
           itemIdNew == Uuid(Len(uuids) + 1)
           lastList == Cell(sheets["ShoppingLists"][Len(sheets["ShoppingLists"])], LIST_COL.ID)
           pushed == [r EXCEPT !.items = Append(@, NewItem(itemIdNew, lastList, entry, r.displayOrder)),
                               !.displayOrder = @ + 1]
       IN  /\ sheets' = appendRow(sheets, "ShoppingListItems",
                                  ItemRow(itemIdNew, lastList, entry, r.displayOrder))
           /\ uuids' = Append(uuids, "item")
           /\ req' = [req EXCEPT ![p] =
                         IF pushed.displayOrder = Len(plan)
                         THEN Respond(pushed, 201, "", GeneratedList(pushed))
                         ELSE pushed]
    /\ UNCHANGED <<clock, pure>>

GenAppendItem(p) ==
    /\ req[p].pc = "gen_appendItem"
    /\ LET r == Called(req[p], "appendRow ShoppingListItems")
           plan == Plan(r.combined, shouldExcludeCommon(r.request))
           entry == plan[r.displayOrder + 1]
           itemIdNew == Uuid(Len(uuids) + 1)
           pushed == [r EXCEPT !.items = Append(@, NewItem(itemIdNew, r.listId, entry, r.displayOrder)),
                               !.displayOrder = @ + 1]
       IN  /\ sheets' = appendRow(sheets, "ShoppingListItems",
                                  ItemRow(itemIdNew, r.listId, entry, r.displayOrder))
           /\ uuids' = Append(uuids, "item")
           /\ req' = [req EXCEPT ![p] =
                         IF pushed.displayOrder = Len(plan)
                         THEN Respond(pushed, 201, "", GeneratedList(pushed))
                         ELSE pushed]
    /\ UNCHANGED <<clock, pure>>

PatchGetRows(p) ==
    /\ req[p].pc = "patch_getRows"
    /\ LET r == Called(req[p], "getRows ShoppingListItems")
           itemRows == getRows(sheets, "ShoppingListItems")
           itemIndex == FindItemIndex(itemRows, r.request.id, r.request.itemId)
       IN  req' = [req EXCEPT ![p] =
                      IF itemIndex = -1 THEN Respond(r, 404, "NOT_FOUND", <<>>)
                      ELSE [r EXCEPT !.pc = "patch_updateRow",
                                     !.itemRows = itemRows,
                                     !.itemIndex = itemIndex,
                                     !.updatedRow = UpdatedRow(itemRows[itemIndex + 1],
                                                               r.request.isChecked.val)]]
    /\ UNCHANGED <<sheets, clock, uuids, pure>>

\* faulty variant: the whole sheet is written back as it was read, with the row changed
PatchUpdateRowWholeSheet(p) ==
    /\ req[p].pc = "patch_updateRow"
    /\ LET r == Called(req[p], "updateRow ShoppingListItems")
       IN  /\ sheets' = [sheets EXCEPT !["ShoppingListItems"] =
                            [i \in 1 .. Len(r.itemRows) |->
                                IF i = r.itemIndex + 1 THEN WrittenRow(r.updatedRow)
                                ELSE r.itemRows[i]]]
           /\ req' = [req EXCEPT ![p] = Respond(r, 200, "", [success |-> TRUE])]
    /\ UNCHANGED <<clock, uuids, pure>>

PatchUpdateRow(p) ==
    /\ req[p].pc = "patch_updateRow"
    /\ LET r == Called(req[p], "updateRow ShoppingListItems")
       IN  /\ sheets' = updateRow(sheets, "ShoppingListItems", r.itemIndex + 1, r.updatedRow)
           /\ req' = [req EXCEPT ![p] = Respond(r, 200, "", [success |-> TRUE])]
    /\ UNCHANGED <<clock, uuids, pure>>

DeleteFindList(p) ==
    /\ req[p].pc = "del_findList"
    /\ LET r == Called(req[p], "getRows ShoppingLists")
           rowIndex == findRowByColumn(getRows(sheets, "ShoppingLists"), LIST_COL.ID, r.request.id)
       IN  req' = [req EXCEPT ![p] =
                      IF rowIndex = 0 THEN Respond(r, 404, "NOT_FOUND", <<>>)
                      ELSE [r EXCEPT !.pc = "del_getItems", !.listRowIndex = rowIndex]]
    /\ UNCHANGED <<sheets, clock, uuids, pure>>

DeleteGetItems(p) ==
    /\ req[p].pc = "del_getItems"
    /\ LET r == Called(req[p], "getRows ShoppingListItems")
           itemRows == getRows(sheets, "ShoppingListItems")
           itemsToDelete == ItemsToDelete(itemRows, r.request.id, Len(itemRows))
       IN  req' = [req EXCEPT ![p] =
                      [r EXCEPT !.pc = IF Len(itemsToDelete) = 0 THEN "del_deleteList"
                                       ELSE "del_deleteItem",
                                !.itemsToDelete = itemsToDelete]]
    /\ UNCHANGED <<sheets, clock, uuids, pure>>

DeleteItemRow(p) ==
    /\ req[p].pc = "del_deleteItem"
    /\ LET r == Called(req[p], "deleteRow ShoppingListItems")
       IN  /\ sheets' = deleteRow(sheets, "ShoppingListItems", r.itemsToDelete[1])
           /\ req' = [req EXCEPT ![p] =
                         [r EXCEPT !.itemsToDelete = Tail(@),
                                   !.pc = IF Len(r.itemsToDelete) = 1 THEN "del_deleteList"
                                          ELSE "del_deleteItem"]]
    /\ UNCHANGED <<clock, uuids, pure>>

DeleteListRow(p) ==
    /\ req[p].pc = "del_deleteList"
    /\ LET r == Called(req[p], "deleteRow ShoppingLists")
       IN  /\ sheets' = deleteRow(sheets, "ShoppingLists", r.listRowIndex)
           /\ req' = [req EXCEPT ![p] = Respond(r, 200, "", [success |-> TRUE])]
    /\ UNCHANGED <<clock, uuids, pure>>

ListGetLists(p) ==
    /\ req[p].pc = "get_lists"
    /\ req' = [req EXCEPT ![p] =
                  Called([@ EXCEPT !.pc = "get_items",
                                   !.listRows = getRows(sheets, "ShoppingLists")],
                         "getRows ShoppingLists")]
    /\ UNCHANGED <<sheets, clock, uuids, pure>>

ListGetItems(p) ==
    /\ req[p].pc = "get_items"
    /\ req' = [req EXCEPT ![p] =
                  Called([@ EXCEPT !.pc = "get_ingredients",
                                   !.itemRows = getRows(sheets, "ShoppingListItems")],
                         "getRows ShoppingListItems")]
    /\ UNCHANGED <<sheets, clock, uuids, pure>>

ListGetIngredients(p) ==
    /\ req[p].pc = "get_ingredients"
    /\ LET r == Called([req[p] EXCEPT !.now = clock], "getRows Ingredients")
       IN  req' = [req EXCEPT ![p] =
                      Respond(r, 200, "",
                              [lists |-> ValidLists(r.listRows, r.itemRows,
                                                    getRows(sheets, "Ingredients"), clock)])]
    /\ UNCHANGED <<sheets, clock, uuids, pure>>

\* the invocation is over once its response is out
HandlerReturn(p) ==
    /\ req[p].pc = "done"
    /\ req' = [req EXCEPT ![p] = IdleReq]
    /\ UNCHANGED <<sheets, clock, uuids, pure>>

\* time passes
Tick(d) ==
    /\ Ticks(clock) < MaxTicks
    /\ clock' = clock + d
    /\ UNCHANGED <<sheets, req, uuids, pure>>

(***************************************************************************)
(* combineIngredients on its own: the amounts collected from the rows of   *)
(* one meal, then combined.                                                *)
(***************************************************************************)
NotApplied == [applied |-> FALSE, amounts |-> <<>>, combined |-> <<>>, groups |-> <<>>]

\* what the function builds for each ingredient before it joins the fragments
Groups(amounts) ==
    LET grouped == Grouped(amounts)
    IN  [i \in 1 .. Len(grouped) |->
            [ingredientId |-> grouped[i].key,
             byUnit |-> ByUnit(grouped[i].value),
             unitParts |-> UnitParts(grouped[i].value),
             nonCombinableNotes |-> NonCombinableNotes(grouped[i].value)]]

Combine ==
    /\ ~pure.applied
    /\ LET allAmounts == AllAmounts(<<"m1">>, getRows(sheets, "MealIngredients"),
                                    getRows(sheets, "Ingredients"))
       IN  pure' = [applied |-> TRUE, amounts |-> allAmounts,
                    combined |-> combineIngredients(allAmounts),
                    groups |-> Groups(allAmounts)]
    /\ UNCHANGED <<sheets, req, clock, uuids>>

(***************************************************************************)
(* Initial states.                                                         *)
(***************************************************************************)
ListsHeader == <<"id", "name", "mealIds", "createdAt", "expiresAt", "createdBy">>
ItemsHeader == <<"id", "listId", "ingredientId", "combinedQuantity", "storeSection", "isChecked", "displayOrder">>
IngredientsHeader == <<"id", "name", "displayName", "storeSection", "defaultUnit", "isCommonItem", "createdAt", "lastUsed">>
MealIngredientsHeader == <<"id", "mealId", "ingredientId", "quantity", "unit", "notes">>
MealsHeader ==
    <<"id", "name", "cuisineType", "chef", "isLeftovers", "isFavorite", "isQuick", "notes",
      "leftoverNotes", "ianRating", "hannaRating", "mealType", "restaurantName",
      "friendName", "effort", "createdAt", "lastUsed", "useCount">>

\* mealToRow of a new meal, as it reads back
MealRow(id, name) ==
    <<id, name, "", "Ian", "FALSE", "FALSE", "FALSE", "", "", "", "", "homemade", "", "", "",
      "T0Z", "", "0">>

\* the meals that exist: A ("m1") and B ("m2"); there is no meal "m3"
MealsRows == <<MealsHeader, MealRow("m1", "Meal A"), MealRow("m2", "Meal B")>>

\* the ingredient catalog: rows as the meals handler writes them (the section and
\* the ingredient id of a line come unvalidated from the request body)
IngredientRows ==
    <<IngredientsHeader,
      <<"flour", "flour", "Flour", "pantry", "cup", "FALSE", "T0Z", "T0Z">>,
      <<"salt", "salt", "Salt", "pantry", "tsp", "TRUE", "T0Z", "T0Z">>,
      <<"eggs", "eggs", "Eggs", "dairy", "", "FALSE", "T0Z", "T0Z">>,
      <<"basil", "basil", "Basil", "produce", "", "TRUE", "T0Z", "T0Z">>,
      <<"foil", "foil", "Foil", "household", "", "FALSE", "T0Z", "T0Z">>>>

\* meals A ("m1") and B ("m2") of the worked example, and a line to taste
ExampleMealIngredients ==
    <<MealIngredientsHeader,
      <<"r1", "m1", "flour", "2", "cup", "">>,
      <<"r2", "m1", "salt", "1", "tsp", "">>,
      <<"r3", "m2", "flour", "1", "cup", "">>,
      <<"r4", "m2", "eggs", "2", "count", "">>,
      <<"r5", "m2", "basil", "", "", "fresh">>>>

Store(mealIngredientRows) ==
    [n \in SheetNames |->
        CASE n = "Meals" -> MealsRows
          [] n = "MealIngredients" -> mealIngredientRows
          [] n = "Ingredients" -> IngredientRows
          [] n = "ShoppingLists" -> <<ListsHeader>>
          [] n = "ShoppingListItems" -> <<ItemsHeader>>]

\* sequences over S of length at most n
RECURSIVE SeqsUpTo(_, _)
SeqsUpTo(S, n) ==
    IF n = 0 THEN {<<>>}
    ELSE LET shorter == SeqsUpTo(S, n - 1)
         IN  shorter \cup {Append(q, x) : q \in {t \in shorter : Len(t) = n - 1}, x \in S}

QuantityCells == {""} \cup {ToString(n) : n \in 0 .. MaxQty}

\* the ingredient lines of meal m1 the consolidation is applied to
CombineLines ==
    {<<"m1", i, q, u, n>> :
        i \in {"flour", "eggs"}, q \in QuantityCells, u \in {"", "cup", "count"},
        n \in {"", "diced"}}

\* the MealIngredients rows of the generate-only model
GenLines ==
    {<<m, i, "2", "cup", "">> :
        m \in {"m1", "m2"}, i \in {"flour", "salt", "eggs", "basil", "foil", "ghost"}}
    \cup {<<"m1", i, "", "", "to taste">> : i \in {"salt", "eggs"}}

\* the MealIngredients sheet that holds the lines, each row under an id of its own
MealIngredientsSheet(lines) ==
    <<MealIngredientsHeader>> \o [i \in 1 .. Len(lines) |-> <<"r" \o ToString(i)>> \o lines[i]]

Quiet ==
    /\ req = [p \in Procs |-> IdleReq]
    /\ clock = 0
    /\ uuids = <<>>
    /\ pure = NotApplied

Init ==
    /\ sheets = Store(ExampleMealIngredients)
    /\ Quiet

InitGen ==
    /\ \E lines \in SeqsUpTo(GenLines, MaxMealRows) :
           sheets = Store(MealIngredientsSheet(lines))
    /\ Quiet

InitCombine ==
    /\ \E lines \in SeqsUpTo(CombineLines, MaxLines) :
           sheets = Store(MealIngredientsSheet(lines))
    /\ Quiet

(***************************************************************************)
(* The requests a client sends.                                            *)
(***************************************************************************)
MealIdsInputs == {Undefined, JsString} \cup {JsArray(a) : a \in MealIdArrays}

GenerateRequests ==
    {[authed |-> TRUE, method |-> "POST", action |-> "generate", id |-> "", itemId |-> "",
      mealIds |-> m, excludeCommonItems |-> e, isChecked |-> Undefined] :
        m \in MealIdsInputs, e \in {Undefined, JsBool(TRUE), JsBool(FALSE)}}

ColumnValues(rows, col) == {Cell(rows[i], col) : i \in 2 .. Len(rows)}

ToggleRequests ==
    {[authed |-> TRUE, method |-> "PATCH", action |-> "", id |-> id, itemId |-> itemId,
      mealIds |-> Undefined, excludeCommonItems |-> Undefined, isChecked |-> c] :
        id \in ColumnValues(sheets["ShoppingLists"], LIST_COL.ID) \cup {"nolist"},
        itemId \in ColumnValues(sheets["ShoppingListItems"], ITEM_COL.ID) \cup {"noitem"},
        c \in {JsBool(TRUE), JsBool(FALSE), JsString}}

DeleteRequests ==
    {[NoRequest EXCEPT !.authed = TRUE, !.method = "DELETE", !.id = id] :
        id \in ColumnValues(sheets["ShoppingLists"], LIST_COL.ID) \cup {"nolist"}}

ListRequests == {[NoRequest EXCEPT !.authed = TRUE, !.method = "GET"]}

\* a method the handler does not serve, and requests without a session
OtherRequests ==
    {[NoRequest EXCEPT !.authed = TRUE, !.method = "PUT"],
     [NoRequest EXCEPT !.method = "GET"],
     [NoRequest EXCEPT !.method = "POST", !.action = "generate",
                       !.mealIds = JsArray(<<"m1">>)]}

ExpiryRequests ==
    ListRequests
    \cup {r \in GenerateRequests :
             r.mealIds \in {JsArray(<<"m1">>), JsArray(<<"m2">>)}
             /\ r.excludeCommonItems = Undefined}

Requests ==
    GenerateRequests \cup ToggleRequests \cup DeleteRequests \cup ListRequests
    \cup OtherRequests

(***************************************************************************)
(* Specifications.                                                         *)
(***************************************************************************)
Begin ==
    \E p \in SeqProcs, request \in Requests : WithinBounds(request) /\ HandlerBegin(p, request)

BeginGenerate ==
    \E p \in SeqProcs, request \in GenerateRequests :
        WithinBounds(request) /\ HandlerBegin(p, request)

Return == \E p \in Procs : HandlerReturn(p)

Generate ==
    \E p \in Procs :
        \/ GenGetMealIngredients(p)
        \/ GenGetIngredients(p)
        \/ GenAppendList(p)
        \/ GenAppendItem(p)

Toggle == \E p \in Procs : PatchGetRows(p) \/ PatchUpdateRow(p)

Delete ==
    \E p \in Procs :
        \/ DeleteFindList(p)
        \/ DeleteGetItems(p)
        \/ DeleteItemRow(p)
        \/ DeleteListRow(p)

Listing == \E p \in Procs : ListGetLists(p) \/ ListGetItems(p) \/ ListGetIngredients(p)

Time == \E d \in {1, FOUR_WEEKS} : Tick(d)

\* one request at a time
Next == Begin \/ Generate \/ Toggle \/ Delete \/ Listing \/ Return

Spec == Init /\ [][Next]_vars

\* lists are generated and listed while time passes
BeginExpiry ==
    \E p \in SeqProcs, request \in ExpiryRequests :
        WithinBounds(request) /\ HandlerBegin(p, request)

NextExpiry == BeginExpiry \/ Generate \/ Listing \/ Return \/ Time

SpecExpiry == Init /\ [][NextExpiry]_vars

\* one generate request against any store
NextGen == BeginGenerate \/ Generate

SpecGen == InitGen /\ [][NextGen]_vars

NextCombine == Combine

SpecCombine == InitCombine /\ [][NextCombine]_vars

(***************************************************************************)
(* Properties.                                                             *)
(***************************************************************************)
IsGenerate(request) == request.method = "POST" /\ request.action = "generate"
IsToggle(request) == request.method = "PATCH" /\ request.id # "" /\ request.itemId # ""
IsListing(request) ==
    request.method = "GET" /\ ~IsGenerate(request) /\ ~IsToggle(request)

\* mealIds is an array of 1 to 4 ids
GoodMealIds(request) ==
    request.mealIds.type = "array" /\ Len(request.mealIds.arr) \in 1 .. 4

Created(p) == req[p].pc = "done" /\ req[p].response.status = 201
CreatedItems(p) == req[p].response.body.list.items

MealRows == sheets["MealIngredients"]
CatalogRows == sheets["Ingredients"]
ListSheet == sheets["ShoppingLists"]
ItemSheet == sheets["ShoppingListItems"]

\* the MealIngredients rows of the meals a request selects
SelectedRows(request) ==
    {i \in 2 .. Len(MealRows) :
        \E k \in 1 .. Len(request.mealIds.arr) :
            request.mealIds.arr[k] = Cell(MealRows[i], MEAL_ING_COL.MEAL_ID)}

IsCommonInCatalog(ingredientId) ==
    \E i \in 2 .. Len(CatalogRows) :
        /\ Cell(CatalogRows[i], ING_COL.ID) = ingredientId
        /\ Cell(CatalogRows[i], ING_COL.IS_COMMON_ITEM) = "TRUE"

\* C1: every successful generate returns, and stores, at most one item per
\* distinct ingredient id of the new list
C1_OneItemPerIngredient ==
    /\ \A p \in Procs :
           Created(p) =>
               \A i, j \in 1 .. Len(CreatedItems(p)) :
                   CreatedItems(p)[i].ingredientId = CreatedItems(p)[j].ingredientId => i = j
    /\ \A i, j \in 2 .. Len(ItemSheet) :
           /\ Cell(ItemSheet[i], ITEM_COL.LIST_ID) = Cell(ItemSheet[j], ITEM_COL.LIST_ID)
           /\ Cell(ItemSheet[i], ITEM_COL.INGREDIENT_ID) = Cell(ItemSheet[j], ITEM_COL.INGREDIENT_ID)
           => i = j

\* a list was created from meals that use one ingredient on two lines
C1_Witness ==
    \E p \in Procs :
        /\ Created(p)
        /\ \E i, j \in SelectedRows(req[p].request) :
               /\ i # j
               /\ Cell(MealRows[i], MEAL_ING_COL.INGREDIENT_ID) = Cell(MealRows[j], MEAL_ING_COL.INGREDIENT_ID)
               /\ \E k \in 1 .. Len(CreatedItems(p)) :
                      CreatedItems(p)[k].ingredientId = Cell(MealRows[i], MEAL_ING_COL.INGREDIENT_ID)

(***************************************************************************)
(* combineIngredients: the lines of one ingredient, counted from the input *)
(***************************************************************************)
LinesOf(ingredientId) ==
    {n \in 1 .. Len(pure.amounts) : pure.amounts[n].ingredientId = ingredientId}
PlainLines(ingredientId) ==
    {n \in LinesOf(ingredientId) :
        ~IsNull(pure.amounts[n].quantity) /\ pure.amounts[n].notes = ""}
NotedLines(ingredientId) ==
    {n \in LinesOf(ingredientId) : pure.amounts[n].notes # ""}

RECURSIVE SumQty(_)
SumQty(S) ==
    IF S = {} THEN 0
    ELSE LET n == CHOOSE n \in S : TRUE
         IN  NumVal(pure.amounts[n].quantity) + SumQty(S \ {n})

RECURSIVE SumValues(_)
SumValues(byUnit) ==
    IF Len(byUnit) = 0 THEN 0 ELSE byUnit[1].value + SumValues(Tail(byUnit))

\* the bucket of a unit string: the empty unit and "count" are one bucket
BucketOf(unit) == IF unit = "" THEN "count" ELSE unit

EveryIngredientHasAGroup ==
    \A n \in 1 .. Len(pure.amounts) :
        \E i \in 1 .. Len(pure.groups) :
            pure.groups[i].ingredientId = pure.amounts[n].ingredientId

\* C2 as stated: the note-free quantified lines of an ingredient give one
\* fragment per distinct unit string, holding the sum of the lines of that unit
C2_OneFragmentPerUnitString ==
    pure.applied =>
        /\ EveryIngredientHasAGroup
        /\ \A i \in 1 .. Len(pure.groups) :
               LET grp == pure.groups[i]
                   plain == PlainLines(grp.ingredientId)
                   units == {pure.amounts[n].unit : n \in plain}
               IN  /\ Len(grp.unitParts) = Cardinality(units)
                   /\ \A u \in units :
                          \E j \in 1 .. Len(grp.byUnit) :
                              /\ grp.byUnit[j].key = BucketOf(u)
                              /\ grp.byUnit[j].value =
                                     SumQty({n \in plain : pure.amounts[n].unit = u})

\* C2 amended: one fragment per bucket, where the empty unit and the unit "count"
\* share the bucket "count"; the fragment holds the sum of the lines of its
\* bucket and lines of different buckets are never summed together
C2_OneFragmentPerBucket ==
    pure.applied =>
        /\ EveryIngredientHasAGroup
        /\ \A i \in 1 .. Len(pure.groups) :
               LET grp == pure.groups[i]
                   plain == PlainLines(grp.ingredientId)
                   buckets == {BucketOf(pure.amounts[n].unit) : n \in plain}
               IN  /\ Len(grp.unitParts) = Cardinality(buckets)
                   /\ Len(grp.byUnit) = Cardinality(buckets)
                   /\ \A b \in buckets :
                          \E j \in 1 .. Len(grp.byUnit) :
                              /\ grp.byUnit[j].key = b
                              /\ grp.byUnit[j].value =
                                     SumQty({n \in plain : BucketOf(pure.amounts[n].unit) = b})

\* two note-free lines of one ingredient in cups were summed, and so were an
\* empty-unit line and a "count" line of one ingredient
C2_Witness ==
    /\ pure.applied
    /\ \E i \in 1 .. Len(pure.groups) :
           LET plain == PlainLines(pure.groups[i].ingredientId)
           IN  /\ Cardinality(plain) = 2
               /\ \A n \in plain : pure.amounts[n].unit = "cup" /\ NumVal(pure.amounts[n].quantity) > 0
               /\ Len(pure.groups[i].byUnit) = 1

\* C3: a line with a note adds nothing to any bucket and has a fragment of its
\* own in the display string, whatever the other lines of the ingredient are
C3_NotedLineKeptApart ==
    pure.applied =>
        \A i \in 1 .. Len(pure.groups) :
            LET grp == pure.groups[i]
                parts == grp.unitParts \o grp.nonCombinableNotes
            IN  /\ Len(grp.nonCombinableNotes) = Cardinality(NotedLines(grp.ingredientId))
                /\ SumValues(grp.byUnit) = SumQty(PlainLines(grp.ingredientId))
                /\ Len(grp.unitParts) = Len(grp.byUnit)
                /\ pure.combined[i].key = grp.ingredientId
                /\ Len(parts) > 0 => pure.combined[i].value.display = Join(parts, " + ")

\* an ingredient has a noted line with a quantity and a note-free line in the same unit
C3_Witness ==
    /\ pure.applied
    /\ \E i \in 1 .. Len(pure.groups) :
           \E n \in NotedLines(pure.groups[i].ingredientId), m \in PlainLines(pure.groups[i].ingredientId) :
               /\ ~IsNull(pure.amounts[n].quantity)
               /\ NumVal(pure.amounts[n].quantity) > 0
               /\ pure.amounts[n].unit = pure.amounts[m].unit
               /\ NumVal(pure.amounts[m].quantity) > 0

(***************************************************************************)
(* generate                                                                *)
(***************************************************************************)
ExcludesCommon(request) ==
    IsGenerate(request) /\ request.excludeCommonItems = JsBool(TRUE)

C5_OnlyCommonItemsIsValidationError ==
    \A p \in Procs :
        /\ ExcludesCommon(req[p].request)
        /\ req[p].request.authed
        /\ GoodMealIds(req[p].request)
        /\ \A i \in SelectedRows(req[p].request) :
               IsCommonInCatalog(Cell(MealRows[i], MEAL_ING_COL.INGREDIENT_ID))
        => /\ Len(ListSheet) = 1
           /\ Len(ItemSheet) = 1
           /\ req[p].pc = "done" =>
                  req[p].response.status = 400 /\ req[p].response.code = "VALIDATION"

SectionRank(section) ==
    CHOOSE k \in 1 .. Len(SECTION_ORDER) : SECTION_ORDER[k] = section
InSectionOrder(section) ==
    \E k \in 1 .. Len(SECTION_ORDER) : SECTION_ORDER[k] = section

\* C6: in a generated list displayOrder strictly increases along the items, and
\* by increasing displayOrder the sections come as blocks in the order produce,
\* meat, dairy, bakery, frozen, pantry, beverages, other
C6_SectionBlocksInOrder ==
    /\ \A p \in Procs :
           Created(p) =>
               /\ \A k \in 1 .. Len(CreatedItems(p)) :
                      InSectionOrder(CreatedItems(p)[k].storeSection)
               /\ \A k \in 1 .. Len(CreatedItems(p)) - 1 :
                      /\ CreatedItems(p)[k].displayOrder < CreatedItems(p)[k + 1].displayOrder
                      /\ SectionRank(CreatedItems(p)[k].storeSection)
                             <= SectionRank(CreatedItems(p)[k + 1].storeSection)
    /\ \A i, j \in 2 .. Len(ItemSheet) :
           Cell(ItemSheet[i], ITEM_COL.LIST_ID) = Cell(ItemSheet[j], ITEM_COL.LIST_ID) =>
               /\ InSectionOrder(Cell(ItemSheet[i], ITEM_COL.STORE_SECTION))
               /\ IsNumeral(Cell(ItemSheet[i], ITEM_COL.DISPLAY_ORDER))
               /\ i # j => Cell(ItemSheet[i], ITEM_COL.DISPLAY_ORDER)
                               # Cell(ItemSheet[j], ITEM_COL.DISPLAY_ORDER)
               /\ parseInt(Cell(ItemSheet[i], ITEM_COL.DISPLAY_ORDER))
                      < parseInt(Cell(ItemSheet[j], ITEM_COL.DISPLAY_ORDER))
                  => SectionRank(Cell(ItemSheet[i], ITEM_COL.STORE_SECTION))
                         <= SectionRank(Cell(ItemSheet[j], ITEM_COL.STORE_SECTION))

\* a list was created whose first item is for an ingredient that comes after
\* another listed ingredient on the meals' lines
C6_Witness ==
    \E p \in Procs :
        /\ Created(p)
        /\ Len(CreatedItems(p)) >= 2
        /\ Len(ItemSheet) = Len(CreatedItems(p)) + 1
        /\ CreatedItems(p)[1].storeSection # CreatedItems(p)[2].storeSection
        /\ \E i, j \in SelectedRows(req[p].request) :
               /\ i < j
               /\ Cell(MealRows[i], MEAL_ING_COL.INGREDIENT_ID) = CreatedItems(p)[2].ingredientId
               /\ Cell(MealRows[j], MEAL_ING_COL.INGREDIENT_ID) = CreatedItems(p)[1].ingredientId

\* C8: when no MealIngredients row belongs to a selected meal, generate ends in
\* the validation error (400) and appends no list header and no item
C8_NoLinesIsValidationError ==
    \A p \in Procs :
        /\ IsGenerate(req[p].request)
        /\ req[p].request.authed
        /\ GoodMealIds(req[p].request)
        /\ SelectedRows(req[p].request) = {}
        => /\ req[p].pc \notin {"gen_appendList", "gen_appendItem"}
           /\ Len(ListSheet) = 1
           /\ Len(ItemSheet) = 1
           /\ req[p].pc = "done" =>
                  req[p].response.status = 400 /\ req[p].response.code = "VALIDATION"

\* the request read both sheets, found no line of its meals among the rows of
\* other meals, and was answered 400
C8_Witness ==
    \E p \in Procs :
        /\ IsGenerate(req[p].request)
        /\ GoodMealIds(req[p].request)
        /\ SelectedRows(req[p].request) = {}
        /\ Len(MealRows) > 1
        /\ req[p].pc = "done"
        /\ req[p].response.status = 400
        /\ Len(req[p].calls) = 2

(***************************************************************************)
(* validation, toggle, expiry                                              *)
(***************************************************************************)
BadShape(request) ==
    \/ IsGenerate(request) /\ ~GoodMealIds(request)
    \/ IsToggle(request) /\ request.isChecked.type # "boolean"

\* a request of bad shape is answered at once, with no row-store call made
C7_Answered ==
    \A p \in Procs :
        req[p].request.authed /\ BadShape(req[p].request) =>
            /\ req[p].pc = "done"
            /\ req[p].response.status = 400
            /\ req[p].response.code = "VALIDATION"
            /\ req[p].calls = <<>>

\* and nothing but the end of the invocation follows the answer
C7_NothingAfter ==
    \A p \in Procs :
        req[p].request.authed /\ BadShape(req[p].request) =>
            /\ sheets' = sheets
            /\ req'[p] = req[p] \/ req'[p] = IdleReq

\* C7: an authenticated request of bad shape (generate whose mealIds is missing,
\* not an array, empty or longer than 4; toggle whose isChecked is not a boolean)
\* is answered with the validation error, with no row-store call before or after
C7_BadShapeRejectedBeforeStore == []C7_Answered /\ [][C7_NothingAfter]_vars

\* with a list in the store, a generate request with five meal ids and a toggle
\* of an existing item with a non-boolean isChecked were answered 400
C7_Witness ==
    \E p \in Procs :
        /\ req[p].pc = "done"
        /\ req[p].response.status = 400
        /\ req[p].calls = <<>>
        /\ Len(ItemSheet) > 1
        /\ \/ IsGenerate(req[p].request) /\ Len(req[p].request.mealIds.arr) = 5
           \/ /\ IsToggle(req[p].request)
              /\ req[p].request.isChecked.type # "boolean"
              /\ \E i \in 2 .. Len(ItemSheet) :
                     /\ Cell(ItemSheet[i], ITEM_COL.ID) = req[p].request.itemId
                     /\ Cell(ItemSheet[i], ITEM_COL.LIST_ID) = req[p].request.id

\* the listing response lists holds the item, and holds it with isChecked = v
Reports(lists, itemId, v) ==
    /\ \E l \in 1 .. Len(lists) : \E k \in 1 .. Len(lists[l].items) :
           lists[l].items[k].id = itemId
    /\ \A l \in 1 .. Len(lists) : \A k \in 1 .. Len(lists[l].items) :
           lists[l].items[k].id = itemId => lists[l].items[k].isChecked = v

\* a listing of the store sh reports the item, and reports it checked = v
ListingReports(sh, itemId, v) == Reports(ListingOf(sh, clock), itemId, v)

\* a toggle request that found its item and is about to write, or has written
ToggleOf(p) ==
    /\ IsToggle(req[p].request)
    /\ req[p].request.authed
    /\ \/ req[p].pc = "patch_updateRow"
       \/ req[p].pc = "done" /\ req[p].response.status = 200

\* before and after the write of a toggle request, toggling its item to the other
\* value and back restores the store, a listing reports the value of each toggle,
\* and after the write a listing reports the value the request asked for
C9_RoundTrip ==
    \A p \in Procs :
        ToggleOf(p) =>
            LET listId == req[p].request.id
                itemId == req[p].request.itemId
                i == FindItemIndex(ItemSheet, listId, itemId) + 1
                b == Cell(ItemSheet[i], ITEM_COL.IS_CHECKED) = "TRUE"
                once == ToggleItem(sheets, listId, itemId, ~b)
                twice == ToggleItem(once, listId, itemId, b)
            IN  /\ i > 1
                /\ ListingReports(sheets, itemId, b)
                /\ once # sheets
                /\ ListingReports(once, itemId, ~b)
                /\ twice["ShoppingListItems"][i] = ItemSheet[i]
                /\ twice = sheets
                /\ ToggleItem(sheets, listId, itemId, b) = sheets
                /\ req[p].pc = "done" => b = req[p].request.isChecked.val

\* the write of a toggle request leaves the store as its toggle asks, and the
\* request is answered 200
C9_ToggleStep ==
    \A p \in Procs :
        req[p].pc = "patch_updateRow" /\ req'[p] # req[p] =>
            /\ sheets' = ToggleItem(sheets, req[p].request.id, req[p].request.itemId,
                                    req[p].request.isChecked.val)
            /\ req'[p].response.status = 200
            /\ ListingReports(sheets', req[p].request.itemId, req[p].request.isChecked.val)

\* C9: for an item with checked flag b, a successful toggle to not-b followed by
\* a successful toggle to b leaves its stored row and the isChecked a listing
\* reports as they were; after each successful toggle to v a listing reports v
C9_ToggleTwiceRestores == []C9_RoundTrip /\ [][C9_ToggleStep]_vars

\* a checked item has been toggled back to unchecked
C9_Witness ==
    \E p \in Procs :
        /\ req[p].pc = "done"
        /\ IsToggle(req[p].request)
        /\ req[p].response.status = 200
        /\ req[p].request.isChecked = JsBool(FALSE)
        /\ \E i, j \in 2 .. Len(ItemSheet) :
               /\ Cell(ItemSheet[i], ITEM_COL.ID) = req[p].request.itemId
               /\ Cell(ItemSheet[i], ITEM_COL.IS_CHECKED) = "FALSE"
               /\ Cell(ItemSheet[j], ITEM_COL.IS_CHECKED) = "TRUE"

ListedIn(body, listId) == \E l \in 1 .. Len(body.lists) : body.lists[l].id = listId

\* every stored list expires four weeks after its creation, and a listing
\* answered at time n holds exactly the stored lists with n <= creation + 4 weeks
C10_ExpiryState ==
    /\ \A i \in 2 .. Len(ListSheet) :
           /\ IsDate(Cell(ListSheet[i], LIST_COL.CREATED_AT))
           /\ IsDate(Cell(ListSheet[i], LIST_COL.EXPIRES_AT))
           /\ DateParse(Cell(ListSheet[i], LIST_COL.CREATED_AT)) <= clock
           /\ DateParse(Cell(ListSheet[i], LIST_COL.EXPIRES_AT))
                  = DateParse(Cell(ListSheet[i], LIST_COL.CREATED_AT)) + 28 * 24 * 60 * 60
    /\ \A p \in Procs :
           /\ req[p].pc = "done"
           /\ req[p].request.authed
           /\ IsListing(req[p].request)
           => /\ req[p].response.status = 200
              /\ \A i \in 2 .. Len(ListSheet) :
                     ListedIn(req[p].response.body, Cell(ListSheet[i], LIST_COL.ID))
                         <=> req[p].now <= DateParse(Cell(ListSheet[i], LIST_COL.CREATED_AT))
                                               + 28 * 24 * 60 * 60

\* a list header is stored with the time of its generate request, and no step
\* of a listing request changes a sheet
C10_ExpirySteps ==
    \A p \in Procs :
        /\ req[p].pc = "gen_appendList" /\ req'[p] # req[p] =>
               /\ Len(sheets'["ShoppingLists"]) = Len(ListSheet) + 1
               /\ Cell(sheets'["ShoppingLists"][Len(ListSheet) + 1], LIST_COL.CREATED_AT)
                      = toISOString(req[p].now)
        /\ req[p].pc = "gen_getIngredients" /\ req'[p].pc = "gen_appendList" =>
               req'[p].now = clock
        /\ req[p].pc \in {"get_lists", "get_items", "get_ingredients"} => sheets' = sheets
        /\ req[p].pc = "get_ingredients" /\ req'[p].pc = "done" => req'[p].now = clock

\* C10: a list generated at t is stored with expiresAt = t + 4 weeks; a listing
\* at n returns it if n <= t + 4 weeks and never when n is later; a listing
\* deletes no row
C10_SoftExpiry == []C10_ExpiryState /\ [][C10_ExpirySteps]_vars

\* a listing one second after the expiry of the only stored list came back
\* empty, and the list's row is still in the sheet
C10_Witness ==
    \E p \in Procs :
        /\ req[p].pc = "done"
        /\ IsListing(req[p].request)
        /\ req[p].response.status = 200
        /\ Len(ListSheet) = 2
        /\ req[p].now = DateParse(Cell(ListSheet[2], LIST_COL.EXPIRES_AT)) + 1
        /\ Len(req[p].response.body.lists) = 0
        /\ Len(ItemSheet) > 1

(***************************************************************************)
(* The catalog is a sheet: a section is edited in the spreadsheet itself   *)
(* (no handler rewrites an Ingredients row).                               *)
(***************************************************************************)
EditedIngredients == {"flour", "eggs"}
EditedSections == {"produce", "dairy", "pantry"}

EditIngredientSection(k, section) ==
    /\ k \in 2 .. Len(sheets["Ingredients"])
    /\ Cell(sheets["Ingredients"][k], ING_COL.ID) \in EditedIngredients
    /\ Cell(sheets["Ingredients"][k], ING_COL.STORE_SECTION) # section
    /\ sheets' = [sheets EXCEPT !["Ingredients"][k][ING_COL.STORE_SECTION + 1] = section]
    /\ UNCHANGED <<req, clock, uuids, pure>>

EditCatalog ==
    \E k \in 2 .. Len(IngredientRows), section \in EditedSections :
        EditIngredientSection(k, section)

\* lists are generated and listed while the catalog is edited
NextSnapshot == BeginExpiry \/ Generate \/ Listing \/ Return \/ EditCatalog

SpecSnapshot == Init /\ [][NextSnapshot]_vars

\* the section the catalog rows give the ingredient (the last row of that id)
CatalogSection(rows, ingredientId) ==
    LET k == CHOOSE k \in 2 .. Len(rows) :
                 /\ Cell(rows[k], ING_COL.ID) = ingredientId
                 /\ \A j \in k + 1 .. Len(rows) : Cell(rows[j], ING_COL.ID) # ingredientId
    IN  Cell(rows[k], ING_COL.STORE_SECTION)

InCatalog(rows, ingredientId) ==
    \E k \in 2 .. Len(rows) : Cell(rows[k], ING_COL.ID) = ingredientId

\* a listing answers, for every item, the section stored in the item's row
C11_ListedAsStored ==
    \A p \in Procs :
        req[p].pc = "done" /\ IsListing(req[p].request) /\ req[p].response.status = 200 =>
            LET lists == req[p].response.body.lists
            IN  \A l \in 1 .. Len(lists) : \A k \in 1 .. Len(lists[l].items) :
                    \E i \in 2 .. Len(ItemSheet) :
                        /\ Cell(ItemSheet[i], ITEM_COL.ID) = lists[l].items[k].id
                        /\ Cell(ItemSheet[i], ITEM_COL.STORE_SECTION)
                               = lists[l].items[k].storeSection

\* generate takes the sections the catalog has when it reads it, writes them into
\* the item rows, and no later step changes the section of a stored item row
C11_SectionFrozen ==
    /\ \A p \in Procs :
           /\ req[p].pc = "gen_getIngredients" /\ req'[p].pc = "gen_appendList" =>
                  \A e \in 1 .. Len(req'[p].combined) :
                      InCatalog(CatalogRows, req'[p].combined[e].key) =>
                          req'[p].combined[e].value.section
                              = CatalogSection(CatalogRows, req'[p].combined[e].key)
           /\ req[p].pc \in {"gen_appendList", "gen_appendItem"}
                  /\ req'[p].pc \in {"gen_appendList", "gen_appendItem"} =>
                  req'[p].combined = req[p].combined
           /\ req[p].pc = "gen_appendItem" /\ req'[p] # req[p] =>
                  LET row == sheets'["ShoppingListItems"][Len(ItemSheet) + 1]
                      e == MapIndex(req[p].combined, Cell(row, ITEM_COL.INGREDIENT_ID))
                  IN  /\ Len(sheets'["ShoppingListItems"]) = Len(ItemSheet) + 1
                      /\ MapHas(req[p].combined, Cell(row, ITEM_COL.INGREDIENT_ID))
                      /\ Cell(row, ITEM_COL.STORE_SECTION) = req[p].combined[e].value.section
    /\ \A i \in 2 .. Len(ItemSheet) :
           /\ Len(sheets'["ShoppingListItems"]) >= i
           /\ sheets'["ShoppingListItems"][i] = ItemSheet[i]

\* C11: the storeSection of a persisted item is the section its ingredient had in
\* the catalog when the list was generated, and a listing reports that section
\* whatever the catalog says later
C11_SectionSnapshot == []C11_ListedAsStored /\ [][C11_SectionFrozen]_vars

\* a listing reported flour under pantry, the section it was generated with, while
\* the catalog now has flour in another section
C11_Witness ==
    \E p \in Procs :
        /\ req[p].pc = "done"
        /\ IsListing(req[p].request)
        /\ req[p].response.status = 200
        /\ CatalogSection(CatalogRows, "flour") # "pantry"
        /\ \E l \in 1 .. Len(req[p].response.body.lists) :
               \E k \in 1 .. Len(req[p].response.body.lists[l].items) :
                   LET item == req[p].response.body.lists[l].items[k]
                   IN  item.ingredientId = "flour" /\ item.storeSection = "pantry"

(***************************************************************************)
(* A store that holds two lists: toggles, deletes and listings, with and   *)
(* without a session.                                                      *)
(***************************************************************************)
RECURSIVE AppendRows(_, _, _, _)
\* the store after the first k of the rows are appended to the sheet, in order
AppendRows(sh, sheetName, rows, k) ==
    IF k = 0 THEN sh
    ELSE appendRow(AppendRows(sh, sheetName, rows, k - 1), sheetName, rows[k])

\* the items generate writes for the meals, in the order it writes them
PlanOf(sh, mealIds, exclude) ==
    Plan(combineIngredients(AllAmounts(mealIds, getRows(sh, "MealIngredients"),
                                       getRows(sh, "Ingredients"))), exclude)

\* the store after a generate request for the meals ran alone at time now, the
\* n-th uuid being the last one drawn before it
Generated(sh, mealIds, exclude, n, now) ==
    LET plan == PlanOf(sh, mealIds, exclude)
        listId == Uuid(n + 1)
    IN  AppendRows(appendRow(sh, "ShoppingLists", ListRow(listId, mealIds, now, ExpiresAt(now))),
                   "ShoppingListItems",
                   [k \in 1 .. Len(plan) |-> ItemRow(Uuid(n + 1 + k), listId, plan[k], k - 1)],
                   Len(plan))

\* list u1 of meal A and then list u4 of meal B
TwoLists ==
    Generated(Generated(Store(ExampleMealIngredients), <<"m1">>, FALSE, 0, 0),
              <<"m2">>, FALSE, 3, 0)

\* list u1 of meal A and list u2 of meal B, generated at the same time: their item
\* rows alternate
TwoListsInterleaved ==
    LET s0 == Store(ExampleMealIngredients)
        a == PlanOf(s0, <<"m1">>, FALSE)
        b == PlanOf(s0, <<"m2">>, FALSE)
        headers == <<ListRow("u1", <<"m1">>, 0, ExpiresAt(0)), ListRow("u2", <<"m2">>, 0, ExpiresAt(0))>>
        items == <<ItemRow("u3", "u1", a[1], 0), ItemRow("u4", "u2", b[1], 0),
                   ItemRow("u5", "u1", a[2], 1), ItemRow("u6", "u2", b[2], 1),
                   ItemRow("u7", "u2", b[3], 2)>>
    IN  AppendRows(AppendRows(s0, "ShoppingLists", headers, 2), "ShoppingListItems", items, 5)

InitLists ==
    /\ sheets \in {TwoLists, TwoListsInterleaved}
    /\ req = [p \in Procs |-> IdleReq]
    /\ clock = 0
    /\ uuids = [i \in 1 .. 7 |->
                   IF i \in {j \in 1 .. 7 : \E k \in 2 .. Len(sheets["ShoppingLists"]) :
                                               sheets["ShoppingLists"][k][1] = Uuid(j)}
                   THEN "list" ELSE "item"]
    /\ pure = NotApplied

\* the same requests sent without a session
Unauthenticated(R) == {[r EXCEPT !.authed = FALSE] : r \in R}

ListsRequests ==
    LET authed == ToggleRequests \cup DeleteRequests \cup ListRequests
    IN  authed \cup Unauthenticated(authed \cup GenerateRequests)
        \cup {[NoRequest EXCEPT !.authed = TRUE, !.method = "PUT"]}

BeginLists == \E p \in SeqProcs, request \in ListsRequests : HandlerBegin(p, request)

NextLists == BeginLists \/ Toggle \/ Delete \/ Listing \/ Return

SpecLists == InitLists /\ [][NextLists]_vars

\* the rows without the k-th
RemoveAt(rows, k) == SubSeq(rows, 1, k - 1) \o SubSeq(rows, k + 1, Len(rows))

IsDelete(request) == request.method = "DELETE" /\ request.id # ""

\* once a delete is answered 200 no row of its list is left
C12_ListGone ==
    \A p \in Procs :
        /\ req[p].pc = "done"
        /\ req[p].request.authed
        /\ IsDelete(req[p].request)
        /\ req[p].response.status = 200
        => /\ \A i \in 2 .. Len(ListSheet) :
                  Cell(ListSheet[i], LIST_COL.ID) # req[p].request.id
           /\ \A i \in 2 .. Len(ItemSheet) :
                  Cell(ItemSheet[i], ITEM_COL.LIST_ID) # req[p].request.id

\* every step of a delete request removes one row of its own list and nothing
\* else, or changes no row at all
C12_OnlyItsRows ==
    \A p \in Procs :
        req[p].request.authed /\ IsDelete(req[p].request) /\ req'[p] # req[p] =>
            \/ /\ req[p].pc = "del_deleteItem"
               /\ sheets' = [sheets EXCEPT !["ShoppingListItems"] = sheets'["ShoppingListItems"]]
               /\ \E k \in 2 .. Len(ItemSheet) :
                      /\ Cell(ItemSheet[k], ITEM_COL.LIST_ID) = req[p].request.id
                      /\ sheets'["ShoppingListItems"] = RemoveAt(ItemSheet, k)
            \/ /\ req[p].pc = "del_deleteList"
               /\ sheets' = [sheets EXCEPT !["ShoppingLists"] = sheets'["ShoppingLists"]]
               /\ \E k \in 2 .. Len(ListSheet) :
                      /\ Cell(ListSheet[k], LIST_COL.ID) = req[p].request.id
                      /\ sheets'["ShoppingLists"] = RemoveAt(ListSheet, k)
               /\ req'[p].response.status = 200
            \/ /\ req[p].pc \in {"idle", "del_findList", "del_getItems", "done"}
               /\ sheets' = sheets

\* C12: after a successful delete of list L, run alone, no ShoppingLists row has
\* id L and no ShoppingListItems row has listId L, and every row of every other
\* list, header or item, is still there unchanged
C12_DeleteRemovesOnlyTheList == []C12_ListGone /\ [][C12_OnlyItsRows]_vars

\* list u1 was deleted from the store where its items alternate with those of u2:
\* u2 and its three items are what is left
C12_Witness ==
    \E p \in Procs :
        /\ req[p].pc = "done"
        /\ IsDelete(req[p].request)
        /\ req[p].request.id = "u1"
        /\ req[p].response.status = 200
        /\ sheets["ShoppingLists"] = <<ListsHeader, TwoListsInterleaved["ShoppingLists"][3]>>
        /\ sheets["ShoppingListItems"]
               = <<ItemsHeader, TwoListsInterleaved["ShoppingListItems"][3],
                   TwoListsInterleaved["ShoppingListItems"][5],
                   TwoListsInterleaved["ShoppingListItems"][6]>>

(***************************************************************************)
(* Two toggle requests in flight at once.                                  *)
(***************************************************************************)
\* toggles of the items of the two lists, each under its own list
ItemToggleRequests ==
    {r \in ToggleRequests :
        /\ r.isChecked.type = "boolean"
        /\ FindItemIndex(sheets["ShoppingListItems"], r.id, r.itemId) # -1}

InitToggles ==
    /\ sheets = TwoLists
    /\ req = [p \in Procs |-> IdleReq]
    /\ clock = 0
    /\ uuids = <<"list", "item", "item", "list", "item", "item", "item">>
    /\ pure = NotApplied

BeginToggles == \E p \in Procs, request \in ItemToggleRequests : HandlerBegin(p, request)

\* each of the two invocations serves one request; their steps interleave
NextToggles == BeginToggles \/ Toggle

SpecToggles == InitToggles /\ [][NextToggles]_vars

\* when both toggles are answered, the store is the one either order of the two
\* toggles run one after the other gives, and each item has the value asked for
C13_AsOneAfterTheOther ==
    LET a == req["p1"].request
        b == req["p2"].request
    IN  /\ req["p1"].pc = "done" /\ req["p2"].pc = "done"
        /\ a.itemId # b.itemId
        => /\ req["p1"].response.status = 200 /\ req["p2"].response.status = 200
           /\ LET ab == ToggleItem(ToggleItem(TwoLists, a.id, a.itemId, a.isChecked.val),
                                   b.id, b.itemId, b.isChecked.val)
                  ba == ToggleItem(ToggleItem(TwoLists, b.id, b.itemId, b.isChecked.val),
                                   a.id, a.itemId, a.isChecked.val)
              IN  \A n \in SheetNames : sheets[n] = ab[n] /\ sheets[n] = ba[n]
           /\ \A i \in 2 .. Len(TwoLists["ShoppingListItems"]) :
                  LET was == TwoLists["ShoppingListItems"][i]
                  IN  ItemSheet[i] =
                          IF Cell(was, ITEM_COL.ID) = a.itemId
                          THEN [was EXCEPT ![ITEM_COL.IS_CHECKED + 1] =
                                    IF a.isChecked.val THEN "TRUE" ELSE "FALSE"]
                          ELSE IF Cell(was, ITEM_COL.ID) = b.itemId
                          THEN [was EXCEPT ![ITEM_COL.IS_CHECKED + 1] =
                                    IF b.isChecked.val THEN "TRUE" ELSE "FALSE"]
                          ELSE was

\* the write of a toggle changes no row but the row of its own item
C13_OwnRowOnly ==
    \A p \in Procs :
        req[p].pc = "patch_updateRow" /\ req'[p] # req[p] =>
            /\ Len(sheets'["ShoppingListItems"]) = Len(ItemSheet)
            /\ \A i \in 1 .. Len(ItemSheet) :
                   \/ sheets'["ShoppingListItems"][i] = ItemSheet[i]
                   \/ Cell(ItemSheet[i], ITEM_COL.ID) = req[p].request.itemId

\* C13: however two toggle requests on two different items interleave, the store
\* ends as if the two had run one after the other: each item has the value its
\* own request asked for, and neither request changes the other item's row
C13_TogglesOfDifferentItems == []C13_AsOneAfterTheOther /\ [][C13_OwnRowOnly]_vars

\* both toggles wrote: u2 is checked by one request and u5 by the other
C13_Witness ==
    /\ req["p1"].pc = "done" /\ req["p2"].pc = "done"
    /\ req["p1"].request.itemId = "u2" /\ req["p1"].request.isChecked = JsBool(TRUE)
    /\ req["p2"].request.itemId = "u5" /\ req["p2"].request.isChecked = JsBool(TRUE)
    /\ Cell(ItemSheet[2], ITEM_COL.IS_CHECKED) = "TRUE"
    /\ Cell(ItemSheet[4], ITEM_COL.IS_CHECKED) = "TRUE"

(***************************************************************************)
(* Two generate requests at the same time.                                 *)
(***************************************************************************)
TwoGenerateRequests ==
    {r \in GenerateRequests :
         /\ r.mealIds \in {JsArray(<<"m1">>), JsArray(<<"m1", "m2">>)}
         /\ r.excludeCommonItems \in {Undefined, JsBool(TRUE)}}

BeginTwoGenerates ==
    \E p \in Procs, request \in TwoGenerateRequests : HandlerBegin(p, request)

NextTwoGenerates == BeginTwoGenerates \/ Generate

SpecTwoGenerates == Init /\ [][NextTwoGenerates]_vars

\* the item rows of one list in sheet order, without the two id columns
ItemContents(rows, listId) ==
    LET OfList(row) == Len(row) > ITEM_COL.LIST_ID /\ Cell(row, ITEM_COL.LIST_ID) = listId
        mine == SelectSeq(Tail(rows), OfList)
    IN  [i \in 1 .. Len(mine) |-> SubSeq(mine[i], ITEM_COL.INGREDIENT_ID + 1, Len(mine[i]))]

\* the same of the response body, as the sheet would hold it
BodyContents(items) ==
    [i \in 1 .. Len(items) |->
         WrittenRow(<<items[i].ingredientId, items[i].combinedQuantity, items[i].storeSection,
                      StringOfBoolean(items[i].isChecked),
                      StringOfNumber(items[i].displayOrder)>>)]

C14_BothCreated ==
    /\ req["p1"].pc = "done" /\ req["p2"].pc = "done"
    /\ req["p1"].response.status = 201 /\ req["p2"].response.status = 201

C14_AsAlone ==
    C14_BothCreated =>
        /\ req["p1"].response.body.list.id # req["p2"].response.body.list.id
        /\ \A i, j \in 2 .. Len(ItemSheet) :
               i # j => Cell(ItemSheet[i], ITEM_COL.ID) # Cell(ItemSheet[j], ITEM_COL.ID)
        /\ \A p \in Procs :
               LET list == req[p].response.body.list
                   alone == Generated(Store(ExampleMealIngredients), req[p].request.mealIds.arr,
                                      shouldExcludeCommon(req[p].request), 0, 0)
                   expected == ItemContents(alone["ShoppingListItems"], Uuid(1))
               IN  /\ \E i \in 2 .. Len(sheets["ShoppingLists"]) :
                          Cell(sheets["ShoppingLists"][i], LIST_COL.ID) = list.id
                   /\ \A i \in 1 .. Len(list.items) :
                          /\ list.items[i].listId = list.id
                          /\ \E k \in 2 .. Len(ItemSheet) :
                                 /\ Cell(ItemSheet[k], ITEM_COL.ID) = list.items[i].id
                                 /\ Cell(ItemSheet[k], ITEM_COL.LIST_ID) = list.id
                   /\ Len(ItemContents(ItemSheet, list.id)) = Len(expected)
                   /\ \A i \in 1 .. Len(expected) :
                          /\ ItemContents(ItemSheet, list.id)[i] = expected[i]
                          /\ BodyContents(list.items)[i] = expected[i]
                   /\ Len(list.items) = Len(expected)

\* an item row is written under the list id its own request drew
C14_OwnListId ==
    \A p \in Procs :
        req[p].pc = "gen_appendItem" /\ req'[p] # req[p] =>
            /\ Len(sheets'["ShoppingListItems"]) = Len(ItemSheet) + 1
            /\ Cell(sheets'["ShoppingListItems"][Len(ItemSheet) + 1], ITEM_COL.LIST_ID)
                   = req[p].listId

\* C14: however two generate requests over the same meals interleave, the two
\* lists get different ids, every item row carries the list id of the request that
\* wrote it, and each list holds the items it would hold had its request run alone
C14_TwoGenerates == []C14_AsAlone /\ [][C14_OwnListId]_vars

\* both requests asked for meal A and meal B and their item rows alternate
C14_Witness ==
    /\ C14_BothCreated
    /\ req["p1"].request.mealIds = JsArray(<<"m1", "m2">>)
    /\ req["p2"].request.mealIds = JsArray(<<"m1", "m2">>)
    /\ \E i, j, k \in 2 .. Len(ItemSheet) :
           /\ i < j /\ j < k
           /\ Cell(ItemSheet[i], ITEM_COL.LIST_ID) = req["p1"].response.body.list.id
           /\ Cell(ItemSheet[j], ITEM_COL.LIST_ID) = req["p2"].response.body.list.id
           /\ Cell(ItemSheet[k], ITEM_COL.LIST_ID) = req["p1"].response.body.list.id

(***************************************************************************)
(* Row-store calls that fail, and the generate route whose item writes are *)
(* not awaited: POST /api/shopping-lists/generate (src/unnamed/part_009,   *)
(* and the same loop in src/unnamed/part_011).                             *)
(***************************************************************************)
\* the row-store call a request makes at each await
CallAt ==
    [gen_getMealIngredients |-> "getRows MealIngredients",
     gen_getIngredients |-> "getRows Ingredients",
     gen_appendList |-> "appendRow ShoppingLists",
     gen_appendItem |-> "appendRow ShoppingListItems",
     patch_getRows |-> "getRows ShoppingListItems",
     patch_updateRow |-> "updateRow ShoppingListItems",
     del_findList |-> "getRows ShoppingLists",
     del_getItems |-> "getRows ShoppingListItems",
     del_deleteItem |-> "deleteRow ShoppingListItems",
     del_deleteList |-> "deleteRow ShoppingLists",
     get_lists |-> "getRows ShoppingLists",
     get_items |-> "getRows ShoppingListItems",
     get_ingredients |-> "getRows Ingredients",
     route_getMealIngredients |-> "getRows MealIngredients",
     route_getIngredients |-> "getRows Ingredients",
     route_appendList |-> "appendRow ShoppingLists"]

Threw(call) == call \o " threw"

\* catch (error) { ... res.status(500) }
Caught(r) == Respond(r, 500, "SHEETS_ERROR", <<>>)

\* an awaited row-store call rejects: the store is as it was and the catch answers
StoreCallThrows(p) ==
    /\ req[p].pc \in DOMAIN CallAt
    /\ req' = [req EXCEPT ![p] = Caught(Called(@, Threw(CallAt[@.pc])))]
    /\ UNCHANGED <<sheets, clock, uuids, pure>>

\* requireAuth, the method check and the validation of the generate route
GenerateRouteBegin(p, request) ==
    /\ Free(p)
    /\ request.action = "/generate"
    /\ req' = [req EXCEPT ![p] =
                  LET r == Started(request)
                  IN  IF ~request.authed THEN Respond(r, 401, "UNAUTHORIZED", <<>>)
                      ELSE IF request.method # "POST" THEN Respond(r, 405, "", <<>>)
                      ELSE IF MealIdsMissing(request.mealIds) \/ TooManyMeals(request.mealIds)
                      THEN Respond(r, 400, "VALIDATION", <<>>)
                      ELSE [r EXCEPT !.pc = "route_getMealIngredients"]]
    /\ UNCHANGED <<sheets, clock, uuids, pure>>

GenerateRouteGetMealIngredients(p) ==
    /\ req[p].pc = "route_getMealIngredients"
    /\ req' = [req EXCEPT ![p] =
                  Called([@ EXCEPT !.pc = "route_getIngredients",
                                   !.mealIngredientRows = getRows(sheets, "MealIngredients")],
                         "getRows MealIngredients")]
    /\ UNCHANGED <<sheets, clock, uuids, pure>>

\* the amounts of the selected meals; a row whose ingredient is not in the catalog
\* is skipped (if (!ingredient) return)
RouteAllAmounts(mealIds, mealIngredientRows, ingredientRows) ==
    LET Resolved(row) == InCatalog(ingredientRows, Cell(row, MEAL_ING_COL.INGREDIENT_ID))
    IN  AllAmounts(mealIds, <<MealIngredientsHeader>> \o SelectSeq(Slice1(mealIngredientRows), Resolved),
                   ingredientRows)

GenerateRouteGetIngredients(p) ==
    /\ req[p].pc = "route_getIngredients"
    /\ LET r == Called(req[p], "getRows Ingredients")
           allAmounts == RouteAllAmounts(r.request.mealIds.arr, r.mealIngredientRows,
                                         getRows(sheets, "Ingredients"))
       IN  IF NoIngredients(allAmounts)
           THEN /\ req' = [req EXCEPT ![p] = Respond(r, 400, "VALIDATION", <<>>)]
                /\ UNCHANGED uuids
           ELSE /\ req' = [req EXCEPT ![p] =
                              [r EXCEPT !.pc = "route_appendList",
                                        !.combined = combineIngredients(allAmounts),
                                        !.listId = Uuid(Len(uuids) + 1),
                                        !.now = clock,
                                        !.expiresAt = ExpiresAt(clock)]]
                /\ uuids' = Append(uuids, "list")
    /\ UNCHANGED <<sheets, clock, pure>>

\* the awaited header write, then the forEach loop, which starts one appendRow per
\* item without awaiting it, and the 201 response
GenerateRouteAppendList(p) ==
    /\ req[p].pc = "route_appendList"
    /\ LET r == Called(req[p], "appendRow ShoppingLists")
           plan == Plan(r.combined, FALSE)
           n == Len(uuids)
           items == [k \in 1 .. Len(plan) |-> NewItem(Uuid(n + k), r.listId, plan[k], k - 1)]
           rows == [k \in 1 .. Len(plan) |-> ItemRow(Uuid(n + k), r.listId, plan[k], k - 1)]
       IN  /\ sheets' = appendRow(sheets, "ShoppingLists",
                                  ListRow(r.listId, r.request.mealIds.arr, r.now, r.expiresAt))
           /\ uuids' = uuids \o [k \in 1 .. Len(plan) |-> "item"]
           /\ req' = [req EXCEPT ![p] =
                         [Respond(r, 201, "", GeneratedList([r EXCEPT !.items = items]))
                             EXCEPT !.pending = rows \o <<>>]]
    /\ UNCHANGED <<clock, pure>>

\* one of the writes started by the loop reaches the sheet
DetachedAppendItem(p) ==
    /\ \E i \in 1 .. Len(req[p].pending) :
           /\ sheets' = appendRow(sheets, "ShoppingListItems", req[p].pending[i])
           /\ req' = [req EXCEPT ![p] =
                         [Called(@, "appendRow ShoppingListItems")
                             EXCEPT !.pending = RemoveAt(@, i)]]
    /\ UNCHANGED <<clock, uuids, pure>>

\* one of the writes started by the loop rejects: nothing awaits the promise
DetachedAppendThrows(p) ==
    /\ \E i \in 1 .. Len(req[p].pending) :
           req' = [req EXCEPT ![p] =
                      [Called(@, Threw("appendRow ShoppingListItems"))
                          EXCEPT !.pending = RemoveAt(@, i)]]
    /\ UNCHANGED <<sheets, clock, uuids, pure>>

GenerateRoute ==
    \E p \in Procs :
        \/ GenerateRouteGetMealIngredients(p)
        \/ GenerateRouteGetIngredients(p)
        \/ GenerateRouteAppendList(p)
        \/ DetachedAppendItem(p)
        \/ DetachedAppendThrows(p)

Throws == \E p \in Procs : StoreCallThrows(p)

GenerateRouteRequests ==
    {[NoRequest EXCEPT !.authed = TRUE, !.method = "POST", !.action = "/generate",
                       !.mealIds = JsArray(m)] : m \in {<<"m1">>, <<"m2">>}}

FailingRequests ==
    {r \in GenerateRequests :
         /\ r.mealIds \in {JsArray(<<"m1">>), JsArray(<<"m2">>), JsArray(<<"m3">>), Undefined}
         /\ r.excludeCommonItems = Undefined}
    \cup {r \in ItemToggleRequests : r.isChecked.val}
    \cup {r \in DeleteRequests : r.id # "nolist"}
    \cup ListRequests
    \cup {[NoRequest EXCEPT !.authed = TRUE, !.method = "PUT"]}

BeginFailing ==
    \E p \in SeqProcs :
        \/ \E request \in FailingRequests : HandlerBegin(p, request)
        \/ \E request \in GenerateRouteRequests : GenerateRouteBegin(p, request)

NextFailures ==
    BeginFailing \/ Generate \/ Toggle \/ Delete \/ Listing \/ Throws \/ GenerateRoute

SpecFailures == InitToggles /\ [][NextFailures]_vars

SomeCallThrew(r) == \E i \in 1 .. Len(r.calls) : \E c \in {CallAt[k] : k \in DOMAIN CallAt} :
                        r.calls[i] = Threw(c)

\* C15: a request one of whose row-store calls failed is answered with a 500, and
\* no generate request is answered 201 when its header write or one of its item
\* writes failed
C15_FailureIsAnswered500 ==
    \A p \in Procs :
        SomeCallThrew(req[p]) => req[p].pc = "done" /\ req[p].response.status = 500

(***************************************************************************)
(* C16: what is not there is not found.                                    *)
(***************************************************************************)
\* no item row carries both the item id and the list id of the request
NoSuchItem(request) ==
    \A i \in 2 .. Len(ItemSheet) :
        \/ Cell(ItemSheet[i], ITEM_COL.ID) # request.itemId
        \/ Cell(ItemSheet[i], ITEM_COL.LIST_ID) # request.id

NoSuchList(request) ==
    \A i \in 2 .. Len(sheets["ShoppingLists"]) :
        Cell(sheets["ShoppingLists"][i], LIST_COL.ID) # request.id

C16_AnswerIs404 ==
    \A p \in Procs :
        (\/ req[p].pc = "patch_getRows" /\ NoSuchItem(req[p].request)
         \/ req[p].pc = "del_findList" /\ NoSuchList(req[p].request))
        /\ req'[p] # req[p]
        => /\ req'[p].pc = "done"
           /\ req'[p].response.status = 404
           /\ req'[p].response.code = "NOT_FOUND"
           /\ \A n \in SheetNames : sheets'[n] = sheets[n]

\* a request answered 404 made one read and no write
C16_NoWriteBefore404 ==
    \A p \in Procs :
        req[p].pc = "done" /\ req[p].response.status = 404 =>
            req[p].calls \in {<<"getRows ShoppingListItems">>, <<"getRows ShoppingLists">>}

\* C16: a toggle whose list id and item id match no item row, also when the item
\* exists under another list, and a delete whose id matches no list row are
\* answered 404 and change no row of ShoppingLists and ShoppingListItems
C16_NotFound == []C16_NoWriteBefore404 /\ [][C16_AnswerIs404]_vars

\* a toggle of an item of another list was answered 404
C16_Witness ==
    \E p \in Procs :
        /\ req[p].pc = "done" /\ req[p].response.status = 404
        /\ req[p].request.method = "PATCH"
        /\ ~NoSuchList(req[p].request)
        /\ \E i \in 2 .. Len(ItemSheet) :
               /\ Cell(ItemSheet[i], ITEM_COL.ID) = req[p].request.itemId
               /\ Cell(ItemSheet[i], ITEM_COL.LIST_ID) # req[p].request.id

(***************************************************************************)
(* C17: a meal id that names no meal.                                      *)
(***************************************************************************)
MealExists(mealId) ==
    \E i \in 2 .. Len(sheets["Meals"]) : Cell(sheets["Meals"][i], 0) = mealId

\* C17: a generate request with one to four meal ids, one of which is the id of
\* no row of Meals, is answered 404
C17_UnknownMealIs404 ==
    \A p \in Procs :
        /\ req[p].pc = "done"
        /\ req[p].request.authed
        /\ Route(req[p].request) = "generate"
        /\ ~MealIdsMissing(req[p].request.mealIds)
        /\ ~TooManyMeals(req[p].request.mealIds)
        /\ \E i \in 1 .. Len(req[p].request.mealIds.arr) :
               ~MealExists(req[p].request.mealIds.arr[i])
        => req[p].response.status = 404

(***************************************************************************)
(* C18: no session, no operation.                                          *)
(***************************************************************************)
C18_Answered401 ==
    \A p \in Procs :
        req[p].pc # "idle" /\ ~req[p].request.authed =>
            /\ req[p].pc = "done"
            /\ req[p].response.status = 401
            /\ req[p].response.code = "UNAUTHORIZED"
            /\ req[p].calls = <<>>

C18_StoreUntouched ==
    \A p \in Procs :
        req'[p] # req[p] /\ ~req'[p].request.authed /\ req'[p].pc # "idle" =>
            \A n \in SheetNames : sheets'[n] = sheets[n]

\* C18: a request without a valid session, whatever its operation and its input,
\* is answered 401 at once and makes no row-store call
C18_SessionFirst == []C18_Answered401 /\ [][C18_StoreUntouched]_vars

\* a generate request without session and without meal ids, and a toggle without
\* session whose isChecked is no boolean, were answered 401 (not 400)
C18_Witness ==
    \E p \in Procs :
        /\ req[p].pc = "done" /\ req[p].response.status = 401
        /\ ~req[p].request.authed
        /\ \/ Route(req[p].request) = "generate" /\ MealIdsMissing(req[p].request.mealIds)
           \/ Route(req[p].request) = "toggle" /\ req[p].request.isChecked.type # "boolean"

(***************************************************************************)
(* C19: generate writes two sheets only.                                   *)
(***************************************************************************)
IsPrefix(old, new) == Len(old) <= Len(new) /\ SubSeq(new, 1, Len(old)) = old

C19_SourcesUntouched ==
    \A p \in Procs :
        /\ req'[p] # req[p]
        /\ req'[p].request.method = "POST"
        /\ req'[p].request.action \in {"generate", "/generate"}
        => /\ sheets'["Meals"] = sheets["Meals"]
           /\ sheets'["MealIngredients"] = sheets["MealIngredients"]
           /\ sheets'["Ingredients"] = sheets["Ingredients"]
           /\ IsPrefix(sheets["ShoppingLists"], sheets'["ShoppingLists"])
           /\ IsPrefix(ItemSheet, sheets'["ShoppingListItems"])

\* C19: no step of a generate request, whether it ends in 201, 400 or 500, changes
\* a row of Meals, MealIngredients or Ingredients; it only adds rows at the end of
\* ShoppingLists and ShoppingListItems
C19_GenerateOnlyAppends == [][C19_SourcesUntouched]_vars

\* a generate request wrote its header and an item, then a write failed: 500
C19_Witness ==
    \E p \in Procs :
        /\ req[p].pc = "done" /\ req[p].response.status = 500
        /\ req[p].request.action = "generate"
        /\ Len(req[p].calls) = 5
        /\ req[p].calls[4] = "appendRow ShoppingListItems"
        /\ Len(ItemSheet) = Len(TwoLists["ShoppingListItems"]) + 1

(***************************************************************************)
(* C20: every invocation ends, once.                                       *)
(***************************************************************************)
\* every row-store call that was started returns or throws in the end
Served == Throws \/ GenerateRoute \/ Toggle \/ Delete \/ Generate \/ Listing

SpecLive == SpecFailures /\ WF_vars(Served)

C20_Responds == \A p \in Procs : (req[p].pc # "idle") ~> (req[p].pc = "done")

C20_QuietAfterResponse ==
    \A p \in Procs :
        req[p].pc = "done" =>
            /\ req'[p].pc = "done"
            /\ req'[p].response = req[p].response
            /\ req'[p].calls = req[p].calls

\* C20: every invocation is answered in the end, the answer stays the one that was
\* sent, and no row-store call is made after it
C20_OneResponseThenQuiet == C20_Responds /\ [][C20_QuietAfterResponse]_vars

(***************************************************************************)
(* C21: one item per surviving ingredient id.                              *)
(***************************************************************************)
\* the ingredient ids of the lines a request collects that excludeCommonItems
\* does not drop
SurvivingIds(request) ==
    {id \in {Cell(MealRows[i], MEAL_ING_COL.INGREDIENT_ID) : i \in SelectedRows(request)} :
        ~(shouldExcludeCommon(request) /\ IsCommonInCatalog(id))}

\* C21: a successful generate request returns exactly one item for each distinct
\* ingredient id it collected and did not exclude, whatever the store section of
\* the ingredient
C21_OneItemPerSurvivingId ==
    \A p \in Procs :
        Created(p) =>
            /\ {CreatedItems(p)[k].ingredientId : k \in 1 .. Len(CreatedItems(p))}
                   = SurvivingIds(req[p].request)
            /\ Len(CreatedItems(p)) = Cardinality(SurvivingIds(req[p].request))

(***************************************************************************)
(* C22: the fragment of a line with a note.                                *)
(***************************************************************************)
\* the fragment as stated: quantity, unit if any, and the note between brackets;
\* quantity and unit left out when the quantity is null
StatedNoteFragment(amount) ==
    IF IsNull(amount.quantity) THEN "(" \o amount.notes \o ")"
    ELSE StringOfNumber(NumVal(amount.quantity))
         \o (IF amount.unit # "" THEN " " \o amount.unit ELSE "")
         \o " (" \o amount.notes \o ")"

\* C22: every line with a note yields the fragment "q u (n)", "q (n)" without
\* unit, also for q = 0, and "(n)" when its quantity is null
C22_NoteFragmentAsStated ==
    pure.applied =>
        \A i \in 1 .. Len(pure.groups) :
            LET OfGroup(a) == a.ingredientId = pure.groups[i].ingredientId /\ a.notes # ""
                noted == SelectSeq(pure.amounts, OfGroup)
            IN  /\ Len(pure.groups[i].nonCombinableNotes) = Len(noted)
                /\ \A k \in 1 .. Len(noted) :
                       pure.groups[i].nonCombinableNotes[k] = StatedNoteFragment(noted[k])

(***************************************************************************)
(* C23: the display string.                                                *)
(***************************************************************************)
\* the first line of the ingredient that falls in the unit bucket
FirstLineOfBucket(ingredientId, key) ==
    CHOOSE n \in PlainLines(ingredientId) :
        /\ UnitKey(pure.amounts[n]) = key
        /\ \A m \in PlainLines(ingredientId) : UnitKey(pure.amounts[m]) = key => n <= m

\* C23: the display string of an ingredient is its unit fragments, in the order
\* in which the units first occur, then its note fragments, joined by " + ", and
\* the em dash when it has no fragment; it yields an entry in both cases
C23_DisplayString ==
    pure.applied =>
        /\ Len(pure.combined) = Len(pure.groups)
        /\ \A i \in 1 .. Len(pure.groups) :
               LET grp == pure.groups[i]
                   parts == grp.unitParts \o grp.nonCombinableNotes
               IN  /\ pure.combined[i].key = grp.ingredientId
                   /\ \A a, b \in 1 .. Len(grp.byUnit) :
                          a < b => FirstLineOfBucket(grp.ingredientId, grp.byUnit[a].key)
                                      < FirstLineOfBucket(grp.ingredientId, grp.byUnit[b].key)
                   /\ pure.combined[i].value.display =
                          IF Len(parts) = 0 THEN EM_DASH ELSE Join(parts, " + ")

(***************************************************************************)
(* C24: the count bucket.                                                  *)
(***************************************************************************)
\* the note-free quantified lines of the ingredient without unit or in "count"
BareLines(ingredientId) ==
    {n \in PlainLines(ingredientId) : pure.amounts[n].unit \in {"", "count"}}

\* C24: the note-free quantified lines of an ingredient whose unit is empty or is
\* the string "count" are summed in the one bucket "count", which is displayed as
\* the bare sum
C24_CountBucket ==
    pure.applied =>
        \A i \in 1 .. Len(pure.groups) :
            LET grp == pure.groups[i]
                bare == BareLines(grp.ingredientId)
                counts == {k \in 1 .. Len(grp.byUnit) : grp.byUnit[k].key = "count"}
            IN  /\ \A k \in 1 .. Len(grp.byUnit) : grp.byUnit[k].key # ""
                /\ Cardinality(counts) = IF bare = {} THEN 0 ELSE 1
                /\ \A k \in counts :
                       /\ grp.byUnit[k].value = SumQty(bare)
                       /\ grp.unitParts[k] = StringOfNumber(SumQty(bare))

\* "2 count" and a unit-less 2 of one ingredient are displayed as "4"
C24_Witness ==
    /\ pure.applied
    /\ Len(pure.amounts) = 2
    /\ pure.amounts[1].ingredientId = pure.amounts[2].ingredientId
    /\ pure.amounts[1].unit = "count" /\ pure.amounts[2].unit = ""
    /\ pure.amounts[1].notes = "" /\ pure.amounts[2].notes = ""
    /\ pure.amounts[1].quantity = Num(2) /\ pure.amounts[2].quantity = Num(2)
    /\ pure.combined[1].value.display = "4"

(***************************************************************************)
(* C25: a line whose ingredient is not in the catalog.                     *)
(***************************************************************************)
BeginGenerateRoute ==
    \E p \in SeqProcs, request \in GenerateRouteRequests : GenerateRouteBegin(p, request)

\* one generate request, sent to the handler or to the generate route, against
\* any store
NextUnresolved == BeginGenerate \/ BeginGenerateRoute \/ Generate \/ GenerateRoute

SpecUnresolved == InitGen /\ [][NextUnresolved]_vars

\* the ingredient ids of the selected lines that the catalog does not hold
UnresolvedIds(request) ==
    {id \in {Cell(MealRows[i], MEAL_ING_COL.INGREDIENT_ID) : i \in SelectedRows(request)} :
        ~InCatalog(CatalogRows, id)}

\* C25: a generate request with a selected line whose ingredient id is not in the
\* Ingredients sheet is answered 201 with exactly one item for that id, named by
\* the raw id and filed under "pantry", also when excludeCommonItems is true
C25_UnresolvedLineKept ==
    \A p \in Procs :
        LET r == req[p]
        IN  (/\ r.pc = "done"
             /\ r.request.method = "POST"
             /\ GoodMealIds(r.request)
             /\ UnresolvedIds(r.request) # {})
            => /\ r.response.status = 201
               /\ \A id \in UnresolvedIds(r.request) :
                      Cardinality({k \in 1 .. Len(CreatedItems(p)) :
                                      /\ CreatedItems(p)[k].ingredientId = id
                                      /\ CreatedItems(p)[k].ingredientName = id
                                      /\ CreatedItems(p)[k].storeSection = "pantry"}) = 1

\* the same, for the requests served by the handler of api/shopping-lists.ts
C25_HandlerKeepsUnresolvedLine ==
    (\A p \in Procs : req[p].request.action # "/generate") => C25_UnresolvedLineKept

(***************************************************************************)
(* C26: the order of the row-store calls of one generate request.          *)
(***************************************************************************)
IsGenerateRequest(request) ==
    request.method = "POST" /\ request.action \in {"generate", "/generate"}

Reads == {"getRows MealIngredients", "getRows Ingredients"}
HeaderWrites == {"appendRow ShoppingLists", Threw("appendRow ShoppingLists")}
ItemWrites == {"appendRow ShoppingListItems", Threw("appendRow ShoppingListItems")}

\* the calls of a generate request: reads, then at most one header write, then
\* item writes
C26_ReadsHeaderItems ==
    \A p \in Procs :
        IsGenerateRequest(req[p].request) =>
            LET calls == req[p].calls
            IN  /\ \A i, j \in 1 .. Len(calls) :
                       (i < j /\ calls[j] \in Reads) => calls[i] \in Reads
                /\ Cardinality({i \in 1 .. Len(calls) : calls[i] \in HeaderWrites}) <= 1
                /\ \A i, j \in 1 .. Len(calls) :
                       (i < j /\ calls[j] \in HeaderWrites) => calls[i] \notin ItemWrites

\* the number of item rows the sheet holds for the list
ItemsStored(rows, listId) ==
    Cardinality({i \in 2 .. Len(rows) : Cell(rows[i], ITEM_COL.LIST_ID) = listId})

\* a step that adds to ShoppingListItems adds one row at the end, for a list
\* whose header is stored, with the displayOrder that follows the rows the list
\* already has
C26_NextItemOnly ==
    Len(sheets'["ShoppingListItems"]) > Len(ItemSheet) =>
        LET new == sheets'["ShoppingListItems"]
            row == new[Len(new)]
        IN  /\ Len(new) = Len(ItemSheet) + 1
            /\ IsPrefix(ItemSheet, new)
            /\ \E j \in 2 .. Len(ListSheet) :
                   Cell(ListSheet[j], LIST_COL.ID) = Cell(row, ITEM_COL.LIST_ID)
            /\ Cell(row, ITEM_COL.DISPLAY_ORDER)
                   = StringOfNumber(ItemsStored(ItemSheet, Cell(row, ITEM_COL.LIST_ID)))

\* C26: in a generate request every read precedes every write, the header is
\* written once and before any item, and the items are written one at a time in
\* increasing displayOrder, so that the stored items of the list are always a
\* prefix of its item sequence
C26_HeaderThenItemsInOrder == []C26_ReadsHeaderItems /\ [][C26_NextItemOnly]_vars

\* the same, for the requests served by the handler of api/shopping-lists.ts
C26_HandlerWritesInOrder ==
    /\ []C26_ReadsHeaderItems
    /\ [][(\A p \in Procs : req[p].request.action # "/generate") => C26_NextItemOnly]_vars

\* the handler wrote the first of two items and the second write failed
C26_HandlerPartialList ==
    \E p \in Procs :
        /\ req[p].request.action = "generate"
        /\ req[p].response.status = 500
        /\ Len(req[p].calls) = 5
        /\ req[p].calls[4] = "appendRow ShoppingListItems"
        /\ req[p].calls[5] = Threw("appendRow ShoppingListItems")

(***************************************************************************)
(* C27: the same request twice against the same source sheets.             *)
(***************************************************************************)
BeginFirst == \E request \in TwoGenerateRequests : HandlerBegin("p1", request)

\* the request is sent again once it has been answered
BeginSecond == req["p1"].pc = "done" /\ HandlerBegin("p2", req["p1"].request)

\* time passes between the two requests
Later == req["p1"].pc = "done" /\ Free("p2") /\ Tick(1)

NextSameTwice == BeginFirst \/ BeginSecond \/ Generate \/ Later

SpecSameTwice == InitGen /\ [][NextSameTwice]_vars

\* what of an item does not depend on the request that made it
ItemContent(item) ==
    <<item.ingredientId, item.combinedQuantity, item.storeSection, item.displayOrder>>

\* the first MealIngredients row of the selected meals that names the ingredient
FirstRowOf(request, ingredientId) ==
    CHOOSE i \in SelectedRows(request) :
        /\ Cell(MealRows[i], MEAL_ING_COL.INGREDIENT_ID) = ingredientId
        /\ \A j \in SelectedRows(request) :
               Cell(MealRows[j], MEAL_ING_COL.INGREDIENT_ID) = ingredientId => i <= j

\* C27: two generate requests with the same mealIds and excludeCommonItems against
\* the same MealIngredients and Ingredients sheets return items equal in
\* ingredientId, combinedQuantity, storeSection and displayOrder, and the items of
\* one section follow the order in which their ingredient ids first appear among
\* the MealIngredients rows
C27_SameItemsInRowOrder ==
    /\ (Created("p1") /\ Created("p2")
         /\ req["p1"].request.mealIds = req["p2"].request.mealIds
         /\ req["p1"].request.excludeCommonItems = req["p2"].request.excludeCommonItems)
        => /\ Len(CreatedItems("p1")) = Len(CreatedItems("p2"))
           /\ \A k \in 1 .. Len(CreatedItems("p1")) :
                  ItemContent(CreatedItems("p1")[k]) = ItemContent(CreatedItems("p2")[k])
    /\ \A p \in Procs :
           Created(p) =>
               \A k, l \in 1 .. Len(CreatedItems(p)) :
                   (k < l /\ CreatedItems(p)[k].storeSection = CreatedItems(p)[l].storeSection)
                   => FirstRowOf(req[p].request, CreatedItems(p)[k].ingredientId)
                          < FirstRowOf(req[p].request, CreatedItems(p)[l].ingredientId)

\* the second list was made later than the first, under other ids, and both hold
\* two items of one section
C27_Witness ==
    /\ Created("p1") /\ Created("p2")
    /\ req["p1"].now # req["p2"].now
    /\ req["p1"].response.body.list.id # req["p2"].response.body.list.id
    /\ Len(CreatedItems("p2")) = 2
    /\ CreatedItems("p2")[1].storeSection = CreatedItems("p2")[2].storeSection
    /\ CreatedItems("p1")[1].id # CreatedItems("p2")[1].id

(***************************************************************************)
(* C28: a toggle while another list is deleted.                            *)
(***************************************************************************)
ListDeleteRequests == {r \in DeleteRequests : r.id # "nolist"}

\* one invocation toggles an item, the other deletes a list; their steps interleave
BeginToggleDelete ==
    \E p \in Procs :
        \/ \E request \in ItemToggleRequests : HandlerBegin(p, request)
        \/ \E request \in ListDeleteRequests : HandlerBegin(p, request)

NextToggleDelete == BeginToggleDelete \/ Toggle \/ Delete

SpecToggleDelete == InitToggles /\ [][NextToggleDelete]_vars

\* the row with another value in the checked column
WithChecked(row, isChecked) ==
    [row EXCEPT ![ITEM_COL.IS_CHECKED + 1] = IF isChecked THEN "TRUE" ELSE "FALSE"]

\* the write of a toggle leaves every row as it is, but for the checked column of
\* the row of its item, while no request deletes the list of the item
C28_OnlyCheckedOfOwnRow ==
    \A p \in Procs :
        (/\ req[p].pc = "patch_updateRow" /\ req'[p].pc = "done"
         /\ req'[p].response.status = 200
         /\ \A q \in Procs : req[q].request.method = "DELETE"
                                  => req[q].request.id # req[p].request.id)
        => /\ Len(sheets'["ShoppingListItems"]) = Len(ItemSheet)
           /\ \A i \in 1 .. Len(ItemSheet) :
                  \/ sheets'["ShoppingListItems"][i] = ItemSheet[i]
                  \/ /\ Cell(ItemSheet[i], ITEM_COL.ID) = req[p].request.itemId
                     /\ sheets'["ShoppingListItems"][i]
                            = WithChecked(ItemSheet[i], req[p].request.isChecked.val)

\* C28: a successful toggle of an item changes only the checked column of the
\* row of that item, in every interleaving with a delete of another list
C28_ToggleTouchesOnlyChecked == [][C28_OnlyCheckedOfOwnRow]_vars

\* the same, when no row was removed between the read and the write of the toggle
C28_ToggleOnUnmovedRows ==
    [][(\A p \in Procs :
           req[p].pc = "patch_updateRow" => Len(req[p].itemRows) = Len(ItemSheet))
       => C28_OnlyCheckedOfOwnRow]_vars

(***************************************************************************)
(* C29: two deletes at once.                                               *)
(***************************************************************************)
\* list u1 of meal A, list u4 of meal B and then list u8 of meal A
ThreeLists ==
    Generated(Generated(Generated(Store(ExampleMealIngredients), <<"m1">>, FALSE, 0, 0),
                        <<"m2">>, FALSE, 3, 0),
              <<"m1">>, FALSE, 7, 0)

InitThreeLists ==
    /\ sheets = ThreeLists
    /\ req = [p \in Procs |-> IdleReq]
    /\ clock = 0
    /\ uuids = <<"list", "item", "item", "list", "item", "item", "item", "list", "item", "item">>
    /\ pure = NotApplied

\* each of the two invocations deletes a list; their steps interleave
BeginTwoDeletes == \E p \in Procs, request \in ListDeleteRequests : HandlerBegin(p, request)

NextTwoDeletes == BeginTwoDeletes \/ Delete

SpecTwoDeletes == InitThreeLists /\ [][NextTwoDeletes]_vars

\* the rows of the sheet that do not belong to the list
RowsOfOthers(rows, col, id) ==
    LET Other(row) == Cell(row, col) # id
    IN  SelectSeq(rows, Other)

\* when two delete requests on two different lists are both answered, the store
\* holds no header and no item of the two lists
C29_BothListsGone ==
    LET a == req["p1"].request.id
        b == req["p2"].request.id
    IN  (/\ req["p1"].pc = "done" /\ req["p2"].pc = "done"
         /\ req["p1"].request.method = "DELETE" /\ req["p2"].request.method = "DELETE"
         /\ a # b)
        => /\ \A i \in 2 .. Len(ListSheet) : Cell(ListSheet[i], LIST_COL.ID) \notin {a, b}
           /\ \A i \in 2 .. Len(ItemSheet) : Cell(ItemSheet[i], ITEM_COL.LIST_ID) \notin {a, b}

\* a step of a delete request removes no header and no item of a list other than
\* the one it was asked to delete, the other request being about another list
C29_OthersKept ==
    \A p \in Procs :
        (/\ req[p].request.method = "DELETE" /\ req'[p] # req[p]
         /\ \A q \in Procs \ {p} : req[q].request.id # req[p].request.id) =>
            /\ RowsOfOthers(sheets'["ShoppingLists"], LIST_COL.ID, req[p].request.id)
                   = RowsOfOthers(ListSheet, LIST_COL.ID, req[p].request.id)
            /\ RowsOfOthers(sheets'["ShoppingListItems"], ITEM_COL.LIST_ID, req[p].request.id)
                   = RowsOfOthers(ItemSheet, ITEM_COL.LIST_ID, req[p].request.id)

\* C29: in any interleaving of two delete requests on two different lists, the
\* final store holds no header and no item of the two lists, and no step of either
\* request removes a header or an item of another list
C29_OnlyTheTwoListsGone == []C29_BothListsGone /\ [][C29_OthersKept]_vars

(***************************************************************************)
(* api/calendar.ts: the calendar entries.                                  *)
(***************************************************************************)
ENTRY_COL == [ID |-> 0, DATE |-> 1, MEAL_ID |-> 2, SLOT |-> 3, CREATED_AT |-> 4, CREATED_BY |-> 5]

\* the columns of the Meals sheet as api/calendar.ts numbers them
CAL_MEAL_COL ==
    [ID |-> 0, NAME |-> 1, CUISINE_TYPE |-> 2, CHEF |-> 3, IS_LEFTOVERS |-> 4,
     IS_FAVORITE |-> 5, IS_QUICK |-> 6, NOTES |-> 7, IAN_RATING |-> 8, HANNA_RATING |-> 9,
     MEAL_TYPE |-> 10, RESTAURANT_NAME |-> 11, FRIEND_NAME |-> 12, CREATED_AT |-> 13,
     LAST_USED |-> 14, USE_COUNT |-> 15]

EntriesHeader == <<"id", "date", "mealId", "slot", "createdAt", "createdBy">>

CalMealsHeader ==
    <<"id", "name", "cuisineType", "chef", "isLeftovers", "isFavorite", "isQuick", "notes",
      "ianRating", "hannaRating", "mealType", "restaurantName", "friendName", "createdAt",
      "lastUsed", "useCount">>

\* the store of the calendar: meal A ("m1"), never used, and no entry
CalendarStore ==
    [n \in {"Meals", "CalendarEntries"} |->
        IF n = "Meals"
        THEN <<CalMealsHeader,
               <<"m1", "Meal A", "", "Ian", "FALSE", "FALSE", "FALSE", "", "", "", "homemade",
                 "", "", "T0Z", "", "0">>>>
        ELSE <<EntriesHeader>>]

\* row[c] ? parseInt(row[c]) : null, then (rating ?? '') as the sheet takes it
RatingText(cell) == IF cell = "" THEN "" ELSE IF IsNumeral(cell) THEN cell ELSE "NaN"

\* parseInt(row[USE_COUNT]) || 0
UseCountOf(cell) == IF IsNumeral(cell) THEN parseInt(cell) ELSE 0

OrDefault(cell, dflt) == IF cell = "" THEN dflt ELSE cell

\* rowToMeal and the updatedRow of the POST branch; a cuisineType cell without
\* commas is split and joined into itself
MealUpdatedRow(row, now) ==
    <<Cell(row, CAL_MEAL_COL.ID), Cell(row, CAL_MEAL_COL.NAME),
      Cell(row, CAL_MEAL_COL.CUISINE_TYPE), OrDefault(Cell(row, CAL_MEAL_COL.CHEF), "Ian"),
      StringOfBoolean(Cell(row, CAL_MEAL_COL.IS_LEFTOVERS) = "TRUE"),
      StringOfBoolean(Cell(row, CAL_MEAL_COL.IS_FAVORITE) = "TRUE"),
      StringOfBoolean(Cell(row, CAL_MEAL_COL.IS_QUICK) = "TRUE"),
      Cell(row, CAL_MEAL_COL.NOTES),
      RatingText(Cell(row, CAL_MEAL_COL.IAN_RATING)),
      RatingText(Cell(row, CAL_MEAL_COL.HANNA_RATING)),
      OrDefault(Cell(row, CAL_MEAL_COL.MEAL_TYPE), "homemade"),
      Cell(row, CAL_MEAL_COL.RESTAURANT_NAME), Cell(row, CAL_MEAL_COL.FRIEND_NAME),
      Cell(row, CAL_MEAL_COL.CREATED_AT), toISOString(now),
      StringOfNumber(UseCountOf(Cell(row, CAL_MEAL_COL.USE_COUNT)) + 1)>>

\* entryRows.slice(1).find(row => row[DATE] === date && parseInt(row[SLOT]) === slot)
SlotTaken(entryRows, date, slot) ==
    \E i \in 2 .. Len(entryRows) :
        /\ Cell(entryRows[i], ENTRY_COL.DATE) = date
        /\ IsNumeral(Cell(entryRows[i], ENTRY_COL.SLOT))
        /\ parseInt(Cell(entryRows[i], ENTRY_COL.SLOT)) = slot

\* a request to /api/calendar; slot 0 and the empty strings stand for a missing value
NoCalendarRequest ==
    [authed |-> FALSE, method |-> "", id |-> "", date |-> "", mealId |-> "", slot |-> 0]

\* requireAuth, the choice of the branch and the validation of the POST body; the
\* GET branch, which writes nothing, is left out
CalendarBegin(p, request) ==
    /\ Free(p)
    /\ request.method # "GET"
    /\ req' = [req EXCEPT ![p] =
                  LET r == Started(request)
                  IN  IF ~request.authed THEN Respond(r, 401, "UNAUTHORIZED", <<>>)
                      ELSE IF request.method = "DELETE" /\ request.id # ""
                      THEN [r EXCEPT !.pc = "cal_findEntry"]
                      ELSE IF request.method = "POST"
                      THEN IF request.date = "" \/ request.mealId = "" \/ request.slot = 0
                           THEN Respond(r, 400, "VALIDATION", <<>>)
                           ELSE IF request.slot # 1 /\ request.slot # 2
                           THEN Respond(r, 400, "VALIDATION", <<>>)
                           ELSE [r EXCEPT !.pc = "cal_getEntries"]
                      ELSE Respond(r, 405, "", <<>>)]
    /\ UNCHANGED <<sheets, clock, uuids, pure>>

\* the read of the entries and the check of the slot
CalendarGetEntries(p) ==
    /\ req[p].pc = "cal_getEntries"
    /\ LET r == Called(req[p], "getRows CalendarEntries")
           entryRows == getRows(sheets, "CalendarEntries")
       IN  IF SlotTaken(entryRows, r.request.date, r.request.slot)
           THEN /\ req' = [req EXCEPT ![p] = Respond(r, 400, "VALIDATION", <<>>)]
                /\ UNCHANGED uuids
           ELSE /\ req' = [req EXCEPT ![p] =
                              [r EXCEPT !.pc = "cal_appendEntry",
                                        !.now = clock,
                                        !.newEntry =
                                            [id |-> Uuid(Len(uuids) + 1),
                                             date |-> r.request.date,
                                             mealId |-> r.request.mealId,
                                             slot |-> r.request.slot,
                                             createdAt |-> toISOString(clock),
                                             createdBy |-> UserEmail]]]
                /\ uuids' = Append(uuids, "entry")
    /\ UNCHANGED <<sheets, clock, pure>>

CalendarAppendEntry(p) ==
    /\ req[p].pc = "cal_appendEntry"
    /\ LET r == Called(req[p], "appendRow CalendarEntries")
           e == r.newEntry
       IN  /\ sheets' = appendRow(sheets, "CalendarEntries",
                                  <<e.id, e.date, e.mealId, StringOfNumber(e.slot), e.createdAt,
                                    e.createdBy>>)
           /\ req' = [req EXCEPT ![p] = [r EXCEPT !.pc = "cal_findMeal"]]
    /\ UNCHANGED <<clock, uuids, pure>>

\* findRowByColumn on Meals; without the meal the entry is answered at once
CalendarFindMeal(p) ==
    /\ req[p].pc = "cal_findMeal"
    /\ LET r == Called(req[p], "getRows Meals")
           mealRows == getRows(sheets, "Meals")
           rowIndex == findRowByColumn(mealRows, CAL_MEAL_COL.ID, r.request.mealId)
       IN  req' = [req EXCEPT ![p] =
                      IF rowIndex = 0 THEN Respond(r, 201, "", [entry |-> r.newEntry])
                      ELSE [r EXCEPT !.pc = "cal_updateMeal",
                                     !.mealRowIndex = rowIndex,
                                     !.updatedRow = MealUpdatedRow(mealRows[rowIndex], clock)]]
    /\ UNCHANGED <<sheets, clock, uuids, pure>>

CalendarUpdateMeal(p) ==
    /\ req[p].pc = "cal_updateMeal"
    /\ LET r == Called(req[p], "updateRow Meals")
       IN  /\ sheets' = updateRow(sheets, "Meals", r.mealRowIndex, r.updatedRow)
           /\ req' = [req EXCEPT ![p] = Respond(r, 201, "", [entry |-> r.newEntry])]
    /\ UNCHANGED <<clock, uuids, pure>>

\* DELETE /api/calendar?id=xxx
CalendarFindEntry(p) ==
    /\ req[p].pc = "cal_findEntry"
    /\ LET r == Called(req[p], "getRows CalendarEntries")
           rowIndex == findRowByColumn(getRows(sheets, "CalendarEntries"), ENTRY_COL.ID,
                                       r.request.id)
       IN  req' = [req EXCEPT ![p] =
                      IF rowIndex = 0 THEN Respond(r, 404, "NOT_FOUND", <<>>)
                      ELSE [r EXCEPT !.pc = "cal_deleteEntry", !.entryRowIndex = rowIndex]]
    /\ UNCHANGED <<sheets, clock, uuids, pure>>

CalendarDeleteEntry(p) ==
    /\ req[p].pc = "cal_deleteEntry"
    /\ LET r == Called(req[p], "deleteRow CalendarEntries")
       IN  /\ sheets' = deleteRow(sheets, "CalendarEntries", r.entryRowIndex)
           /\ req' = [req EXCEPT ![p] = Respond(r, 200, "", [success |-> TRUE])]
    /\ UNCHANGED <<clock, uuids, pure>>

CalendarDates == {"2026-01-05", "2026-01-06"}

CalendarRequests ==
    {[NoCalendarRequest EXCEPT !.authed = TRUE, !.method = "POST", !.date = d, !.mealId = m,
                               !.slot = n] :
        d \in CalendarDates \cup {""}, m \in {"m1", "m3"}, n \in 0 .. 3}
    \cup {[NoCalendarRequest EXCEPT !.authed = TRUE, !.method = "DELETE", !.id = id] :
             id \in ColumnValues(sheets["CalendarEntries"], ENTRY_COL.ID)}
    \cup {[NoCalendarRequest EXCEPT !.method = "POST"],
          [NoCalendarRequest EXCEPT !.authed = TRUE, !.method = "PUT"]}

InitCalendar ==
    /\ sheets = CalendarStore
    /\ Quiet

\* each of the two invocations serves one request; their steps interleave
BeginCalendar == \E p \in Procs, request \in CalendarRequests : CalendarBegin(p, request)

CalendarCreate ==
    \E p \in Procs :
        \/ CalendarGetEntries(p)
        \/ CalendarAppendEntry(p)
        \/ CalendarFindMeal(p)
        \/ CalendarUpdateMeal(p)

CalendarDelete == \E p \in Procs : CalendarFindEntry(p) \/ CalendarDeleteEntry(p)

NextCalendar == BeginCalendar \/ CalendarCreate \/ CalendarDelete

SpecCalendar == InitCalendar /\ [][NextCalendar]_vars

EntryRows == sheets["CalendarEntries"]

\* C30: the CalendarEntries sheet never holds two entries of one date and slot,
\* slot being 1 or 2, also when two create requests for the same free slot
\* interleave between their read and their append
C30_OneEntryPerSlot ==
    \A i, j \in 2 .. Len(EntryRows) :
        i # j => ~(/\ Cell(EntryRows[i], ENTRY_COL.DATE) = Cell(EntryRows[j], ENTRY_COL.DATE)
                   /\ Cell(EntryRows[i], ENTRY_COL.SLOT) = Cell(EntryRows[j], ENTRY_COL.SLOT)
                   /\ Cell(EntryRows[i], ENTRY_COL.SLOT) \in {"1", "2"})

\* a create request that reads the sheet while its slot is taken is answered 400
\* VALIDATION and writes nothing
C30_TakenSlotRejectedStep ==
    \A p \in Procs :
        (/\ req[p].pc = "cal_getEntries" /\ req'[p] # req[p]
         /\ SlotTaken(EntryRows, req[p].request.date, req[p].request.slot))
        => /\ req'[p].pc = "done"
           /\ req'[p].response.status = 400 /\ req'[p].response.code = "VALIDATION"
           /\ sheets' = sheets

C30_TakenSlotRejected == [][C30_TakenSlotRejectedStep]_vars

\* a create request was refused because its slot held an entry
C30_Refused ==
    \E p \in Procs :
        /\ req[p].pc = "done" /\ req[p].response.status = 400
        /\ Len(req[p].calls) = 1 /\ req[p].calls[1] = "getRows CalendarEntries"
        /\ Len(EntryRows) = 2

====
